---- MODULE Spec2Model ----
(***************************************************************************)
(* FlowFusion bridge orchestrator: the TWAP engine (scheduler, execution   *)
(* worker, price cache), the orchestrator's timeout monitor and event      *)
(* handlers, the REST cancel handler and the order store they share.       *)
(*                                                                         *)
(* One order is followed.  Every handler that reads the order from the     *)
(* store and writes it back later is split at the read: between the two    *)
(* steps the other goroutines run, and the write stores the handler's own  *)
(* copy of the row (UpdateOrder has no WHERE on status or updated_at).     *)
(*                                                                         *)
(* Units.  Time is in seconds.  Amounts stored in the database are         *)
(* DECIMAL(78,0): integers.  Amounts held in memory are decimals; they are *)
(* kept here as integers scaled by AmountScale (four fractional digits:    *)
(* one for a quotient by 1 or 2, three for the product with the mock       *)
(* swap's per-mille variance).  Prices are integers scaled by PriceScale.  *)
(***************************************************************************)
EXTENDS Integers, Sequences, FiniteSets, TLC

\* ------------------------------------------------------------------------
\* Bounds of the model
\* ------------------------------------------------------------------------

\* The clock runs from 0 to MaxTime in steps of one interval duration.
MaxTime == 120

\* Capacity of the execution queue in the model (make(chan, 100) in the code).
QueueCapacity == 1

\* The price cache of the order's pair holds at most this many points.
MaxPoints == 2

\* executeInterval is run at most this many times.
MaxExecutions == 3

\* The timeout monitor expires the order at most this many times.
MaxExpirations == 2

\* The price cache is observed up to this time, in steps of CacheClockStep.
MaxCacheTime == 360

\* The clock of SpecCache: steps of half a day, up to a day and a half.
CacheAgeStep == 43200

MaxRecordTime == 129600

CacheClockStep == 60

\* Transactions sent to the bridge contract.
MaxBridgeCalls == 4

\* Calls of ExecuteOrderManually.
MaxManualCalls == 3

\* Calls of AddEventHandler, RemoveEventHandler and handleEvent in a run.
MaxRegistryCalls == 4

\* Blocks are mined BlockStep at a time up to MaxBlockNumber; the chain's
\* clock starts at GenesisTimestamp.
BlockStep == 50

MaxBlockNumber == 101

GenesisTimestamp == 1000

\* ExecuteCrossChainSwap is called at most this many times.
MaxSwaps == 1

\* updatePriceFeeds runs at most this many times.
MaxFeedTicks == 1

\* Chain events delivered to handleEvent (order_executed apart).
MaxDeliveries == 2

\* cancelOrder is called at most this many times.
MaxCancels == 1

\* order_executed events delivered for the order.
MaxEvents == 1

\* Store calls that fail (return an error) in one behaviour.
MaxStoreFailures == 1

\* Fractional digits shopspring's Decimal.Div keeps (16 in the library).
DivisionPrecision == 6

\* ------------------------------------------------------------------------
\* Program constants
\* ------------------------------------------------------------------------

\* GetExecutableOrders: "Use a mock current block height for now".
MockCurrentHeight == 1000000

\* getCurrentPrice looks at the last hour of the cache.
CurrentPriceWindow == 3600

\* PriceCache.maxAge = 24h.
\* FlowFusionBridge.BASIS_POINTS
BASIS_POINTS == 10000

\* FlowFusionBridge.MIN_EXECUTION_AMOUNT
MIN_EXECUTION_AMOUNT == 1000

\* ExecuteCrossChainSwap: TimeoutHeight - 100
TargetHeightMargin == 100

\* ExecuteCrossChainSwap: TimeoutTimestamp - 3600
TargetTimeMargin == 3600

\* updatePriceFeeds: context.WithTimeout(..., 60*time.Second)
TickDeadline == 60

\* getCoinGeckoPrice, getDEXPrice: http.Client{Timeout: 30 * time.Second}
HTTPTimeout == 30

CacheMaxAge == 86400

\* ------------------------------------------------------------------------
\* Inputs
\* ------------------------------------------------------------------------

\* Scale of in-memory decimal amounts: 10^4.
AmountScale == 10 * 1000

\* Scale of prices: six fractional digits.
PriceScale == 1000 * 1000

\* Prices the feeds report for the order's pair (scaled by PriceScale).
FeedPrices == {100 * PriceScale, 102 * PriceScale}

\* time.Now().Unix() % 100 at the moment of the mock swap.
SwapSeconds == {0, 50, 90}

\* The order under observation, as createOrder stores it.
SourceAmount == 140

ExecutionIntervals == 2

WindowMinutes == 5

MinFillSize == 70

\* timeout_timestamp of the order.
TimeoutTimestamp == 120

\* max_slippage of the order, basis points.
MaxSlippage == 100

\* timeout_height values an order may carry: validation only asks > 0.
HeightChoices == {MockCurrentHeight, MockCurrentHeight + 100}

Statuses == {"pending", "executing", "partially_filled", "completed",
             "cancelled", "expired", "refunded", "claimed"}

Terminal == {"completed", "cancelled", "expired", "refunded", "claimed"}

\* ------------------------------------------------------------------------
\* Decimal arithmetic
\* ------------------------------------------------------------------------

Abs(x) == IF x < 0 THEN -x ELSE x

Sign(x) == IF x < 0 THEN -1 ELSE 1

\* floor(x * a / d) and the remainder, for a >= 0 and d > 0, by Horner's rule
\* over the decimal digits of a so that no intermediate exceeds 32 bits.
RECURSIVE MulDivMod(_, _, _)
MulDivMod(x, a, d) ==
    IF a = 0 THEN <<0, 0>>
    ELSE LET prev == MulDivMod(x, a \div 10, d)
             t == 10 * prev[2] + x * (a % 10)
         IN  <<10 * prev[1] + (t \div d), t % d>>

\* x * a / d rounded half away from zero (Decimal.DivRound, NUMERIC rounding).
MulDivRound(x, a, d) ==
    LET qr == MulDivMod(Abs(x), a, d)
    IN  Sign(x) * (qr[1] + (IF 2 * qr[2] >= d THEN 1 ELSE 0))

\* floor(x * a / d + 1/2): the rounding of avg + x*a/d when avg is whole.
MulDivHalfUp(x, a, d) ==
    LET qr == MulDivMod(x, a, d)
    IN  qr[1] + (IF 2 * qr[2] >= d THEN 1 ELSE 0)

\* A decimal amount (scaled) as the DECIMAL(78,0) column stores it.
ToNumeric0(amt) == MulDivRound(amt, 1, AmountScale)

\* floor(n / d + 1/2) for d > 0.
RoundDivHalfUp(n, d) == (2 * n + d) \div (2 * d)

\* ------------------------------------------------------------------------
\* State
\* ------------------------------------------------------------------------

VARIABLES
    now,       \* wall clock, seconds since the order was created
    params,    \* the order's immutable columns chosen at creation
    order,     \* the order's mutable columns in the orders table
    history,   \* the order's rows in execution_history, in insertion order
    queue,     \* Engine.executionQueue
    cache,     \* Engine.priceCache.data[pair]
    worker,    \* executionWorker: position, request taken, order as read
    sched,     \* orderProcessor: position, order as GetExecutableOrders gave it
    monitor,   \* orderMonitor: position, order as GetExecutableOrders gave it
    api,       \* cancelOrder handler: position, order as read, caller
    evt,       \* handleOrderExecuted: position, order as read
    response,  \* the ExecutionResponse executeInterval returned last
    metrics,   \* Engine.metrics
    stats,     \* Orchestrator.stats
    dbFailures, \* number of store calls that have returned an error
    htlc,      \* the order's row in the htlcs table
    feed,      \* updatePriceFeeds: loop position and locals of the tick
    twap,      \* what the last call of calculateTWAP returned (-1: no call)
    swap,      \* Manager.ExecuteCrossChainSwap: position, request, adapter calls
    bridge,    \* the FlowFusionBridge contract: storage, balances, chain clock
    priceCache, \* Engine.priceCache.data, for the pairs of CachedPairs
    life,      \* the process: stop signal, loops, Start calls, adapters, Store
    registry   \* Orchestrator.eventHandlers, its mutex and the goroutines at it

vars == <<now, params, order, history, queue, cache, worker, sched, monitor,
          api, evt, response, metrics, stats, dbFailures, htlc, feed,
          twap, swap, bridge, priceCache, life, registry>>

NoOrder == [status |-> "none", executed |-> 0, lastExec |-> -1, avgPrice |-> 0]

NoRequest == [interval |-> -1, target |-> 0, maxSlippage |-> 0, hint |-> 0,
              manual |-> FALSE]

NoHTLC == [status |-> "none", secret |-> "none"]

\* A ChainEvent: its type and, for htlc_claimed, the secret it carries.
NoEvent == [type |-> "none", secret |-> "none"]

\* updatePriceFeeds before its first run.
NoFeed ==
    [pc |-> "idle", pair |-> 1, source |-> 1, elapsed |-> 0, successCount |-> 0,
     lastError |-> FALSE, written |-> <<>>, answer |-> "none", err |-> FALSE,
     ticks |-> 0]

\* ExecuteCrossChainSwap before its first call.  created: the CreateHTLC
\* calls that returned an address, in order; refunds: the HTLCs for which a
\* refund has been scheduled or submitted.
NoSwap ==
    [pc |-> "idle", hashedSecret |-> "none", timeoutHeight |-> 0,
     timeoutTimestamp |-> 0, created |-> <<>>, refunds |-> {},
     error |-> "none", calls |-> 0]

\* orders[orderId] of an order that does not exist (user == address(0)).
NoBridgeOrder ==
    [user |-> "none", sourceToken |-> "none", sourceAmount |-> 0,
     timeoutHeight |-> 0, executedAmount |-> 0, lastExecution |-> 0,
     status |-> "Executing", averagePrice |-> 0]

\* The goroutines Engine.Start and Orchestrator.Start launch.
EngineLoops ==
    {"priceFeedUpdater", "orderProcessor", "executionWorker", "metricsUpdater"}

OrchestratorLoops == {"eventSubscriber", "orderMonitor", "statisticsUpdater"}

Loops == EngineLoops \cup OrchestratorLoops

\* The event types of the map's keys: one of the defaults and one that only
\* AddEventHandler registers.
HandlerTypes == {"order_created", "custom"}

\* NewOrchestrator: setupEventHandlers has registered the defaults; nobody is
\* at the map.
Registered ==
    [eventHandlers |-> {"order_created"},
     mutex |-> "free",
     writer |-> [pc |-> "idle", op |-> "none", type |-> "none"],
     reader |-> [pc |-> "idle", type |-> "none", result |-> "none"],
     raced |-> FALSE,
     calls |-> 0]

\* main has started both Start calls and the HTTP server and waits for a
\* signal; the adapters are connected, the loops are at their select, the
\* goroutines that subscribe to the adapters' events have not run yet.
\* atStop: whether cancel() found every loop with a body inside it.
\* manual: the caller of ExecuteOrderManually, its position and what it got.
Started ==
    [main |-> "serving", ctx |-> "live", store |-> "open",
     engine |-> "waiting", engineStopChan |-> "open",
     orchestrator |-> "waiting", orchestratorStopChan |-> "open",
     loops |-> [l \in Loops |-> "select"],
     connected |-> TRUE, subscribed |-> "pending", atStop |-> "none",
     manual |-> [pc |-> "idle", result |-> "none", calls |-> 0]]

\* No transaction sent yet.
NoCall == [fn |-> "none", sender |-> "none", amount |-> 0, price |-> 0,
           secret |-> "none", ok |-> FALSE]

\* The contract after its constructor ran with fee rate `rate`.  balance is
\* what the contract holds of the order's asset, paid what it has sent to
\* each account, last the latest transaction and whether it went through.
BridgeDeployed(rate) ==
    [protocolFeeRate |-> rate, order |-> NoBridgeOrder, history |-> <<>>,
     balance |-> 0, paid |-> [a \in {"user", "other", "executor", "feeCollector"} |-> 0],
     timestamp |-> GenesisTimestamp, number |-> 1, last |-> NoCall, calls |-> 0]

NoResponse == [success |-> FALSE, error |-> "none"]

\* ------------------------------------------------------------------------
\* database.Order helpers (models.go)
\* ------------------------------------------------------------------------

\* time.Duration(o.WindowMinutes/o.ExecutionIntervals) * time.Minute, seconds.
IntervalDuration == (WindowMinutes \div ExecutionIntervals) * 60

\* Order.GetNextExecutionTime: CreatedAt (time 0) before the first execution.
GetNextExecutionTime(o) ==
    IF o.lastExec = -1 THEN 0 ELSE o.lastExec + IntervalDuration

\* Order.CanExecuteInterval: time.Now().After(next).  The clock here counts
\* whole seconds and time.Now() has nanoseconds, so a call made in second t
\* is after an instant recorded earlier in second t.
CanExecuteInterval(o) == now >= GetNextExecutionTime(o)

\* Order.GetRemainingAmount
GetRemainingAmount(o) == SourceAmount - o.executed

\* Order.GetRemainingIntervals
GetRemainingIntervals(h) == ExecutionIntervals - Len(h)

\* remainingAmount.Div(remainingIntervals), as a scaled in-memory amount.
\* The divisor is 1 or 2 for ExecutionIntervals = 2, so one fractional digit
\* holds the quotient; it is then widened to AmountScale.
WholeRemainder(o, h) == GetRemainingAmount(o) * AmountScale

TargetAmount(o, h) ==
    MulDivRound(GetRemainingAmount(o), 10, GetRemainingIntervals(h))
        * (AmountScale \div 10)

\* Order.UpdateAveragePrice(executionAmount, executionPrice) on an order whose
\* ExecutedAmount is `executed` (scaled) when the method runs.
\*   (avg*executed + price*amount) / (executed + amount)
\* is computed as avg + (price - avg)*amount / (executed + amount), the same
\* number, so that intermediates stay small.
UpdateAveragePrice(avg, executed, amount, price) ==
    IF executed = 0 THEN price
    ELSE LET total == executed + amount
         IN  IF total = 0 THEN avg
             ELSE LET s == Sign(amount) * Sign(total)
                  IN  avg + MulDivHalfUp(s * (price - avg), Abs(amount), Abs(total))

\* ------------------------------------------------------------------------
\* Price cache and price arithmetic (twap engine)
\* ------------------------------------------------------------------------

\* Engine.getPricePoints: the points with Timestamp.After(now - window).
getPricePoints(window) ==
    SelectSeq(cache, LAMBDA p : p.ts > now - window)

\* Engine.addPricePoint: append, then drop what is not After(now - maxAge).
addPricePoint(point) ==
    SelectSeq(Append(cache, point), LAMBDA p : p.ts > now - CacheMaxAge)

\* The pair of the order (its sequence is the variable cache) and another
\* pair of the price feed loop.
OrderPair == "ETH_USDC"

CachedPairs == {OrderPair, "ATOM_USDC"}

\* A cache that is never cleaned.
KeepAll(points) == points

\* addPricePoint, "Clean old data": what is After(now - maxAge) stays.
CleanOldData(points) == SelectSeq(points, LAMBDA p : p.ts > now - CacheMaxAge)

\* Engine.addPricePoint on the map of all pairs.
addPricePointTo(tokenPair, point) ==
    [priceCache EXCEPT ![tokenPair] = CleanOldData(Append(@, point))]

\* Engine.storePricePoint(tokenPair, source, price) on the map of all pairs.
storePricePointTo(tokenPair, price) ==
    IF price <= 0 THEN priceCache
    ELSE addPricePointTo(tokenPair, [ts |-> now, price |-> price])

\* Engine.storePricePoint: prices <= 0 are refused, the rest is cached.
storePricePoint(price) ==
    IF price <= 0 THEN cache
    ELSE addPricePoint([ts |-> now, price |-> price])

\* weight of point i in calculateTWAP: 1 for the first, else the gap in seconds.
TwapWeight(pts, i) == IF i = 1 THEN 1 ELSE pts[i].ts - pts[i - 1].ts

RECURSIVE TwapSum(_, _, _)
\* sum over points 1..i of (price - base) * weight, and of weight.
TwapSum(pts, i, base) ==
    IF i = 0 THEN <<0, 0>>
    ELSE LET prev == TwapSum(pts, i - 1, base)
             w == TwapWeight(pts, i)
         IN  <<prev[1] + (pts[i].price - base) * w, prev[2] + w>>

\* Engine.calculateTWAP, with the caller's fallback of zero on error.
\* totalValue.Div(totalWeight) is computed relative to the first price.
calculateTWAP(windowMinutes) ==
    LET pts == getPricePoints(windowMinutes * 60)
    IN  IF Len(pts) = 0 THEN 0
        ELSE IF Len(pts) = 1 THEN pts[1].price
        ELSE LET sw == TwapSum(pts, Len(pts), pts[1].price)
             IN  IF sw[2] = 0 THEN 0
                 ELSE pts[1].price + RoundDivHalfUp(sw[1], sw[2])

\* Engine.getCurrentPrice; 0 stands for the error "no price data available".
getCurrentPrice ==
    LET pts == getPricePoints(CurrentPriceWindow)
    IN  IF Len(pts) = 0 THEN 0 ELSE pts[Len(pts)].price

\* Engine.calculateSlippage: diff.Div(expected) keeps DivisionPrecision
\* digits (rounded), Mul(10000), Float64, int() truncates.
calculateSlippage(expectedPrice, actualPrice) ==
    IF expectedPrice = 0 THEN 0
    ELSE LET diff == Abs(expectedPrice - actualPrice)
             ratio == MulDivRound(diff, 10 ^ DivisionPrecision, expectedPrice)
         IN  ratio \div (10 ^ (DivisionPrecision - 4))

\* Engine.executeSwap (mock): variance 0.99 + 0.02*(sec/100) on the amount,
\* 0.995 + 0.01*(sec/100) on the price; sec is a multiple of 10 here, so both
\* factors are whole per-mille.
AmountVariance(sec) == 990 + (2 * sec) \div 10

PriceVariance(sec) == 995 + sec \div 10

executeSwap(amount, priceHint, sec) ==
    [amount |-> MulDivRound(amount, AmountVariance(sec), 1000),
     price  |-> MulDivRound(priceHint, PriceVariance(sec), 1000)]

\* ------------------------------------------------------------------------
\* Store (PostgreSQLDB)
\* ------------------------------------------------------------------------

\* The WHERE clause of GetExecutableOrders, on the row as it is now.
Executable(o) ==
    /\ o.status \in {"pending", "executing"}
    /\ params.timeoutHeight > MockCurrentHeight
    /\ \/ o.lastExec = -1
       \/ o.lastExec + (WindowMinutes \div ExecutionIntervals) * 60 <= now

\* UpdateOrder: executed_amount, last_execution, status and average_price are
\* overwritten with the caller's copy, whatever the row holds by now.
\* (updated_at = NOW() is written too; nothing reads it and it is not kept.)
UpdateOrder(o) ==
    [status |-> o.status, executed |-> o.executed, lastExec |-> o.lastExec,
     avgPrice |-> o.avgPrice]

\* GetOrder / the row GetExecutableOrders scans: the caller's own copy.
ReadOrder == order

\* Outcomes of a store call: success, or an error while failures are left.
DbOutcomes == IF dbFailures < MaxStoreFailures THEN {TRUE, FALSE} ELSE {TRUE}

Failed(ok) == IF ok THEN 0 ELSE 1

\* ------------------------------------------------------------------------
\* Initial state: the order has just been created by createOrder
\* ------------------------------------------------------------------------

InitOffChain(points) ==
    /\ now = 0
    /\ params \in [maxSlippage : {MaxSlippage}, timeoutHeight : HeightChoices]
    /\ order = [status |-> "pending", executed |-> 0, lastExec |-> -1,
                avgPrice |-> 0]
    /\ history = <<>>
    /\ queue = <<>>
    /\ cache = points
    /\ worker = [pc |-> "idle", req |-> NoRequest, order |-> NoOrder]
    /\ sched = [pc |-> "idle", order |-> NoOrder]
    /\ monitor = [pc |-> "idle", order |-> NoOrder]
    /\ api = [pc |-> "idle", order |-> NoOrder, owner |-> FALSE, calls |-> 0,
              caller |-> "none"]
    /\ evt = [pc |-> "idle", order |-> NoOrder, events |-> 0,
              seen |-> {}, deliveries |-> 0, last |-> NoEvent]
    /\ response = NoResponse
    /\ metrics = [total |-> 0, successful |-> 0, failed |-> 0]
    /\ stats = [failedOrders |-> 0, activeOrders |-> 0, totalOrders |-> 0,
                completedOrders |-> 0, successfulSwaps |-> 0]
    /\ dbFailures = 0
    /\ htlc = NoHTLC
    /\ feed = NoFeed
    /\ twap = -1
    /\ swap = NoSwap
    /\ priceCache = [pair \in CachedPairs |-> points]
    /\ life = Started
    /\ registry = Registered

\* The orchestrator started, the contract deployed without a protocol fee.
InitWith(points) == InitOffChain(points) /\ bridge = BridgeDeployed(0)

\* The price cache is empty when the order is created.
Init == InitWith(<<>>)

\* The feed has stored one price for the pair when the order is created.
InitFed == InitWith(<<[ts |-> 0, price |-> 100 * PriceScale]>>)

\* ------------------------------------------------------------------------
\* Clock and price feed
\* ------------------------------------------------------------------------

Tick ==
    /\ now + IntervalDuration <= MaxTime
    /\ now' = now + IntervalDuration
    /\ UNCHANGED <<params, order, history, queue, cache, worker, sched,
                   monitor, api, evt, response, metrics, stats, dbFailures, htlc, feed, twap, swap, bridge, priceCache, life, registry>>

\* updatePriceFeeds -> storePricePoint for one source of the order's pair.
PriceFeed ==
    /\ Len(cache) < MaxPoints
    /\ \E price \in FeedPrices \cup {0} : cache' = storePricePoint(price)
    /\ UNCHANGED <<now, params, order, history, queue, worker, sched,
                   monitor, api, evt, response, metrics, stats, dbFailures, htlc, feed, twap, swap, bridge, priceCache, life, registry>>

\* ------------------------------------------------------------------------
\* FlowFusionBridge (Solidity): one order, transactions of three accounts
\* ------------------------------------------------------------------------

Accounts == {"user", "other", "executor"}

\* authorizedExecutors, as the owner has set it
AuthorizedExecutors == {"executor"}

\* Fee rates in basis points: none, and the one the test fixture deploys.
ProtocolFeeRates == {0, 25}

SourceTokens == {"ETH", "ERC20"}

BridgeSourceAmounts == {999, 4000}

BridgeIntervalAmounts == {0, 300, 1995, 2000, 4000}

BridgePrices == {0, 2000, 2100}

\* twapConfig of the order: 5 minutes, 2 intervals, 1% slippage.
BridgeWindowMinutes == 5

BridgeIntervals == 2

BridgeMaxSlippage == 100

BridgeMinFillSize == 400

\* _getIntervalDuration
BridgeIntervalDuration == (BridgeWindowMinutes * 60) \div BridgeIntervals

RECURSIVE BridgeTwapSums(_, _, _)
\* the loop of _calculateTWAP over records 1..i: <<totalValue, totalWeight>>
BridgeTwapSums(h, i, windowStart) ==
    IF i = 0 THEN <<0, 0>>
    ELSE LET prev == BridgeTwapSums(h, i - 1, windowStart)
             weight == IF i > 1 THEN h[i].timestamp - h[i - 1].timestamp ELSE 1
         IN  IF h[i].timestamp >= windowStart
             THEN <<prev[1] + h[i].price * weight, prev[2] + weight>>
             ELSE prev

\* _calculateTWAP (block.timestamp - window does not underflow here)
BridgeTWAP(h, timestamp) ==
    IF Len(h) = 0 THEN 0
    ELSE LET sums == BridgeTwapSums(h, Len(h), timestamp - BridgeWindowMinutes * 60)
         IN  IF sums[2] > 0 THEN sums[1] \div sums[2] ELSE 0

\* _calculateSlippage
BridgeSlippage(expectedPrice, actualPrice) ==
    IF expectedPrice = 0 THEN 0
    ELSE (Abs(expectedPrice - actualPrice) * BASIS_POINTS) \div expectedPrice

\* _calculateWeightedAveragePrice on the order as the caller passes it,
\* executedAmount already increased by the interval.
WeightedAveragePrice(o, newPrice, newAmount) ==
    (o.averagePrice * o.executedAmount + newPrice * newAmount)
        \div (o.executedAmount + newAmount)

AveragePriceAlwaysWeighted(o, newPrice, newAmount) ==
    WeightedAveragePrice(o, newPrice, newAmount)

\* "Update average price" of executeTWAPInterval
NextAveragePrice(o, newPrice, newAmount) ==
    IF o.averagePrice = 0 THEN newPrice
    ELSE WeightedAveragePrice(o, newPrice, newAmount)

RefundNothing(o) == 0

\* An interval of any size passes.
NothingExceeds(o, intervalAmount) == FALSE

\* executeTWAPInterval: "FlowFusion: Exceeds remaining"
ExceedsRemaining(o, intervalAmount) ==
    ~(intervalAmount <= o.sourceAmount - o.executedAmount)

\* Secrets a claim is made with: the preimage of the order's htlcHash or not.
BridgeSecrets == {"valid", "wrong"}

\* A claim that looks at the secret alone.
ClaimableBySecret(o, secret) == secret = "valid"

\* the two requires of claimHTLC
Claimable(o, secret) == o.status = "Completed" /\ secret = "valid"

\* refundAmount of cancelOrder
RefundAmount(o) == o.sourceAmount - o.executedAmount

\* A transaction that reverted: storage untouched, the call is remembered.
Reverted(call) ==
    [bridge EXCEPT !.last = [call EXCEPT !.ok = FALSE], !.calls = @ + 1]

\* A block is mined.
Mine ==
    /\ bridge.number + BlockStep <= MaxBlockNumber
    /\ bridge' = [bridge EXCEPT !.number = @ + BlockStep,
                                !.timestamp = @ + BridgeIntervalDuration]
    /\ UNCHANGED <<now, params, order, history, queue, cache, worker, sched,
                   monitor, api, evt, response, metrics, stats, dbFailures,
                   htlc, feed, twap, swap, priceCache, life, registry>>

\* createTWAPOrder(sourceToken, sourceAmount, ..., timeoutHeight) with
\* msg.value; chain, token, recipient, hash and TWAP config are valid.
createTWAPOrder ==
    /\ bridge.calls < MaxBridgeCalls
    /\ bridge.order.user = "none"
    /\ \E sender \in Accounts, token \in SourceTokens,
          sourceAmount \in BridgeSourceAmounts, exact \in BOOLEAN,
          margin \in {100, 101} :
         LET call == [fn |-> "create", sender |-> sender,
                      amount |-> sourceAmount, price |-> 0,
                      secret |-> "none", ok |-> TRUE]
             timeoutHeight == bridge.number + margin
             protocolFee == (sourceAmount * bridge.protocolFeeRate) \div BASIS_POINTS
             netAmount == sourceAmount - protocolFee
             value == IF token = "ETH" /\ exact THEN sourceAmount ELSE 0
         IN  /\ token = "ERC20" => exact
             /\ bridge' =
                  IF \/ sourceAmount < MIN_EXECUTION_AMOUNT
                     \/ ~(timeoutHeight > bridge.number + 100)
                     \/ (token = "ETH" /\ value # sourceAmount)
                  THEN Reverted(call)
                  ELSE [bridge EXCEPT
                          !.order = [user |-> sender, sourceToken |-> token,
                                     sourceAmount |-> netAmount,
                                     timeoutHeight |-> timeoutHeight,
                                     executedAmount |-> 0, lastExecution |-> 0,
                                     status |-> "Executing", averagePrice |-> 0],
                          !.balance = @ + sourceAmount - protocolFee,
                          !.paid["feeCollector"] = @ + protocolFee,
                          !.last = call,
                          !.calls = @ + 1]
    /\ UNCHANGED <<now, params, order, history, queue, cache, worker, sched,
                   monitor, api, evt, response, metrics, stats, dbFailures,
                   htlc, feed, twap, swap, priceCache, life, registry>>

\* executeTWAPInterval(orderId, intervalAmount, executionPrice, priceProof)
\* with a non-empty proof.
executeTWAPInterval ==
    /\ bridge.calls < MaxBridgeCalls
    /\ \E sender \in Accounts, intervalAmount \in BridgeIntervalAmounts,
          executionPrice \in BridgePrices :
         LET call == [fn |-> "execute", sender |-> sender,
                      amount |-> intervalAmount, price |-> executionPrice,
                      secret |-> "none", ok |-> TRUE]
             o == bridge.order
             twapPrice == BridgeTWAP(bridge.history, bridge.timestamp)
             filled == [o EXCEPT !.executedAmount = @ + intervalAmount,
                                 !.lastExecution = bridge.timestamp]
             priced == [filled EXCEPT
                          !.averagePrice =
                              NextAveragePrice(filled, executionPrice, intervalAmount)]
         IN  bridge' =
               IF \/ sender \notin AuthorizedExecutors
                  \/ o.user = "none"
                  \/ o.status # "Executing"
                  \/ ~(intervalAmount > 0)
                  \/ ExceedsRemaining(o, intervalAmount)
                  \/ ~(bridge.number < o.timeoutHeight)
                  \/ ~(\/ o.lastExecution = 0
                       \/ bridge.timestamp >= o.lastExecution + BridgeIntervalDuration)
                  \/ ~(executionPrice > 0)
                  \/ (twapPrice > 0 /\
                        BridgeSlippage(twapPrice, executionPrice) > BridgeMaxSlippage)
                  \/ ~(\/ intervalAmount >= BridgeMinFillSize
                       \/ intervalAmount = o.sourceAmount - o.executedAmount)
               THEN Reverted(call)
               ELSE [bridge EXCEPT
                       !.history = Append(@, [timestamp |-> bridge.timestamp,
                                              amount |-> intervalAmount,
                                              price |-> executionPrice]),
                       !.order = IF priced.executedAmount >= priced.sourceAmount
                                 THEN [priced EXCEPT !.status = "Completed"]
                                 ELSE priced,
                       !.last = call,
                       !.calls = @ + 1]
    /\ UNCHANGED <<now, params, order, history, queue, cache, worker, sched,
                   monitor, api, evt, response, metrics, stats, dbFailures,
                   htlc, feed, twap, swap, priceCache, life, registry>>

\* cancelOrder(orderId)
cancelOrder ==
    /\ bridge.calls < MaxBridgeCalls
    /\ \E sender \in Accounts :
         LET call == [fn |-> "cancel", sender |-> sender, amount |-> 0,
                      price |-> 0, secret |-> "none", ok |-> TRUE]
             o == bridge.order
             refundAmount == RefundAmount(o)
         IN  bridge' =
               IF o.user = "none" \/ o.user # sender \/ o.status # "Executing"
               THEN Reverted(call)
               ELSE IF refundAmount > 0
               THEN [bridge EXCEPT !.order.status = "Cancelled",
                                   !.balance = @ - refundAmount,
                                   !.paid[sender] = @ + refundAmount,
                                   !.last = call,
                                   !.calls = @ + 1]
               ELSE [bridge EXCEPT !.last = call, !.calls = @ + 1]
    /\ UNCHANGED <<now, params, order, history, queue, cache, worker, sched,
                   monitor, api, evt, response, metrics, stats, dbFailures,
                   htlc, feed, twap, swap, priceCache, life, registry>>

\* claimHTLC(orderId, secret)
claimHTLC ==
    /\ bridge.calls < MaxBridgeCalls
    /\ \E sender \in Accounts, secret \in BridgeSecrets :
         LET call == [fn |-> "claim", sender |-> sender, amount |-> 0,
                      price |-> 0, secret |-> secret, ok |-> TRUE]
             o == bridge.order
         IN  bridge' =
               IF o.user = "none" \/ ~Claimable(o, secret)
               THEN Reverted(call)
               ELSE [bridge EXCEPT !.order.status = "Claimed",
                                   !.last = call,
                                   !.calls = @ + 1]
    /\ UNCHANGED <<now, params, order, history, queue, cache, worker, sched,
                   monitor, api, evt, response, metrics, stats, dbFailures,
                   htlc, feed, twap, swap, priceCache, life, registry>>

\* ------------------------------------------------------------------------
\* Manager.ExecuteCrossChainSwap
\* ------------------------------------------------------------------------

\* Timeouts a swap request carries: those validateCreateOrderRequest lets an
\* order have (height > 0, timestamp in the future).
SwapTimeoutHeights == {50, 100, 101, MockCurrentHeight + 100}

\* Unix seconds.  The clock of the model starts at 0 where a real clock is far
\* above the margin, so only timestamps above the margin are drawn.
SwapTimeoutTimestamps == {3601, 7200}

HashedSecrets == {"0xaaaaaaaa", "0xbbbbbbbb"}

\* ChainAdapter.CreateHTLC of whatever adapter is registered for the chain.
AdapterOutcomes == {TRUE, FALSE}

\* targetHTLCParams
TargetHTLCParams(sw) ==
    [chain |-> "target", hashedSecret |-> sw.hashedSecret,
     timeoutHeight |-> sw.timeoutHeight - TargetHeightMargin,
     timeoutTimestamp |-> sw.timeoutTimestamp - TargetTimeMargin]

\* htlcParams (source chain)
SourceHTLCParams(sw) ==
    [chain |-> "source", hashedSecret |-> sw.hashedSecret,
     timeoutHeight |-> sw.timeoutHeight,
     timeoutTimestamp |-> sw.timeoutTimestamp]

\* ExecuteCrossChainSwap is called; both adapters are found.
SwapRequest ==
    /\ swap.pc = "idle"
    /\ swap.calls < MaxSwaps
    /\ \E h \in SwapTimeoutHeights, t \in SwapTimeoutTimestamps,
          hs \in HashedSecrets :
         swap' = [NoSwap EXCEPT !.pc = "source", !.hashedSecret = hs,
                                !.timeoutHeight = h, !.timeoutTimestamp = t,
                                !.calls = swap.calls + 1]
    /\ UNCHANGED <<now, params, order, history, queue, cache, worker, sched,
                   monitor, api, evt, response, metrics, stats, dbFailures,
                   htlc, feed, twap, bridge, priceCache, life, registry>>

\* sourceAdapter.CreateHTLC(htlcParams)
SwapCreateSource ==
    /\ swap.pc = "source"
    /\ \E ok \in AdapterOutcomes :
         swap' = IF ok
                 THEN [swap EXCEPT !.pc = "target",
                                   !.created = Append(@, SourceHTLCParams(swap))]
                 ELSE [swap EXCEPT !.pc = "idle", !.error = "source"]
    /\ UNCHANGED <<now, params, order, history, queue, cache, worker, sched,
                   monitor, api, evt, response, metrics, stats, dbFailures,
                   htlc, feed, twap, bridge, priceCache, life, registry>>

\* targetAdapter.CreateHTLC(targetHTLCParams) and the return.
SwapCreateTarget ==
    /\ swap.pc = "target"
    /\ \E ok \in AdapterOutcomes :
         swap' = IF ok
                 THEN [swap EXCEPT !.pc = "idle",
                                   !.created = Append(@, TargetHTLCParams(swap))]
                 ELSE [swap EXCEPT !.pc = "idle", !.error = "target"]
    /\ UNCHANGED <<now, params, order, history, queue, cache, worker, sched,
                   monitor, api, evt, response, metrics, stats, dbFailures,
                   htlc, feed, twap, bridge, priceCache, life, registry>>

\* Time passes between two uses of the price cache.
Elapse ==
    /\ now + CacheClockStep <= MaxCacheTime
    /\ now' = now + CacheClockStep
    /\ UNCHANGED <<params, order, history, queue, cache, worker, sched,
                   monitor, api, evt, response, metrics, stats, dbFailures,
                   htlc, feed, twap, swap, bridge, priceCache, life, registry>>

\* Half a day passes.
ElapseHalfDay ==
    /\ now + CacheAgeStep <= MaxRecordTime
    /\ now' = now + CacheAgeStep
    /\ UNCHANGED <<params, order, history, queue, cache, worker, sched,
                   monitor, api, evt, response, metrics, stats, dbFailures,
                   htlc, feed, twap, swap, bridge, priceCache, life, registry>>

\* storePricePoint(tokenPair, source, price), called by the price feed loop.
RecordPoint ==
    /\ \E tokenPair \in CachedPairs, price \in FeedPrices \cup {0} :
          /\ Len(priceCache[tokenPair]) < MaxPoints
          /\ priceCache' = storePricePointTo(tokenPair, price)
          /\ cache' = IF tokenPair = OrderPair THEN storePricePoint(price)
                      ELSE cache
    /\ UNCHANGED <<now, params, order, history, queue, worker, sched,
                   monitor, api, evt, response, metrics, stats, dbFailures,
                   htlc, feed, twap, swap, bridge, life, registry>>

\* A caller asks calculateTWAP for the order's pair and window.
TwapQuery ==
    /\ twap' = calculateTWAP(WindowMinutes)
    /\ UNCHANGED <<now, params, order, history, queue, cache, worker, sched,
                   monitor, api, evt, response, metrics, stats, dbFailures,
                   htlc, feed, swap, bridge, priceCache, life, registry>>

\* ------------------------------------------------------------------------
\* updatePriceFeeds, one source call per step (the loop is sequential)
\* ------------------------------------------------------------------------

TokenPairs == <<"ETH_USDC", "ATOM_USDC", "XLM_USDC", "BTC_USDC">>

Sources == <<"chainlink", "coingecko", "1inch">>

\* What a source does when it is asked: a well-formed positive price, a
\* well-formed price of zero, an error (non-200, malformed, unsupported
\* pair), or no answer before the HTTP client's timeout.
\* getChainlinkPrice makes no network call: it answers from a fixed table.
\* getDEXPrice knows the token addresses of ETH_USDC only.
SourceAnswers(pair, source) ==
    CASE source = "chainlink" ->
           IF pair = "XLM_USDC" THEN {"error"} ELSE {"price"}
      [] source = "coingecko" -> {"price", "zero", "error", "hang"}
      [] source = "1inch" ->
           IF pair = "ETH_USDC" THEN {"price", "zero", "error", "hang"}
           ELSE {"error"}

\* The price of a well-formed positive answer, in tenths of a dollar.
SourcePrice(pair, source) ==
    CASE source = "chainlink" ->
           (CASE pair = "ETH_USDC" -> 25000
              [] pair = "BTC_USDC" -> 450000
              [] pair = "ATOM_USDC" -> 125
              [] OTHER -> 0)
      [] source = "coingecko" -> 20010
      [] source = "1inch" -> 19990

\* What the source function returns to the loop: the HTTP sources fail at
\* once when the tick's context is past its deadline.
SourceResult(pair, source, answer) ==
    IF source # "chainlink" /\ feed.elapsed >= TickDeadline THEN "error"
    ELSE answer

\* Seconds the call takes: an HTTP source that does not answer is given up
\* at the client's timeout or at the context's deadline.
CallDuration(source, answer) ==
    IF source # "chainlink" /\ feed.elapsed < TickDeadline /\ answer = "hang"
    THEN IF feed.elapsed + HTTPTimeout <= TickDeadline
         THEN HTTPTimeout ELSE TickDeadline - feed.elapsed
    ELSE 0

\* The source call returned a price and storePricePoint accepted it.
Stored(result) == result = "price"

TickErrorOnAnyFailure(successCount, lastError) == lastError

\* the return of updatePriceFeeds: an error only if no source succeeded.
TickError(successCount, lastError) == successCount = 0 /\ lastError

\* updatePriceFeeds is entered by the price feed loop.
FeedStart ==
    /\ feed.pc = "idle"
    /\ feed.ticks < MaxFeedTicks
    /\ feed' = [NoFeed EXCEPT !.pc = "running", !.ticks = feed.ticks]
    /\ UNCHANGED <<now, params, order, history, queue, cache, worker, sched,
                   monitor, api, evt, response, metrics, stats, dbFailures, htlc, twap, swap, bridge, priceCache, life, registry>>

\* One iteration of the inner loop: call the source, store its price.
FeedCall ==
    /\ feed.pc = "running"
    /\ feed.pair <= Len(TokenPairs)
    /\ LET pair == TokenPairs[feed.pair]
           source == Sources[feed.source]
       IN  \E answer \in SourceAnswers(pair, source) :
             LET result == SourceResult(pair, source, answer)
                 last == feed.source = Len(Sources)
             IN  feed' =
                   [feed EXCEPT
                      !.answer = answer,
                      !.elapsed = @ + CallDuration(source, answer),
                      !.lastError = @ \/ ~Stored(result),
                      !.successCount = IF Stored(result) THEN @ + 1 ELSE @,
                      !.written =
                         IF Stored(result)
                         THEN Append(@, [pair |-> pair, source |-> source,
                                         price |-> SourcePrice(pair, source)])
                         ELSE @,
                      !.source = IF last THEN 1 ELSE @ + 1,
                      !.pair = IF last THEN @ + 1 ELSE @]
    /\ UNCHANGED <<now, params, order, history, queue, cache, worker, sched,
                   monitor, api, evt, response, metrics, stats, dbFailures, htlc, twap, swap, bridge, priceCache, life, registry>>

\* After the last pair: the return value.
FeedReturn ==
    /\ feed.pc = "running"
    /\ feed.pair > Len(TokenPairs)
    /\ feed' = [feed EXCEPT !.pc = "idle", !.ticks = @ + 1,
                            !.err = TickError(feed.successCount, feed.lastError)]
    /\ UNCHANGED <<now, params, order, history, queue, cache, worker, sched,
                   monitor, api, evt, response, metrics, stats, dbFailures, htlc, twap, swap, bridge, priceCache, life, registry>>

\* ------------------------------------------------------------------------
\* Scheduler: processExecutableOrders / processOrder
\* ------------------------------------------------------------------------

\* processExecutableOrders: GetExecutableOrders returns the order.
SchedQuery ==
    /\ sched.pc = "idle"
    /\ Executable(order)
    /\ sched' = [pc |-> "process", order |-> ReadOrder]
    /\ UNCHANGED <<now, params, order, history, queue, cache, worker,
                   monitor, api, evt, response, metrics, stats, dbFailures, htlc, feed, twap, swap, bridge, priceCache, life, registry>>

\* The request processOrder builds for order copy o and history h.
NewRequest(o, h, hint, manual) ==
    [interval |-> Len(h), target |-> TargetAmount(o, h),
     maxSlippage |-> params.maxSlippage, hint |-> hint, manual |-> manual]

OfferBlindly(q, req) == Append(q, req)

\* Non-blocking send on executionQueue: dropped when the queue is full.
Offer(q, req) == IF Len(q) < QueueCapacity THEN Append(q, req) ELSE q

\* processOrder's decision: "wait", "complete", "skip" or "enqueue".
processOrderDecision(o, h) ==
    IF ~CanExecuteInterval(o) THEN "wait"
    ELSE IF Len(h) >= ExecutionIntervals THEN "complete"
    ELSE IF GetRemainingIntervals(h) <= 0 THEN "wait"
    ELSE IF TargetAmount(o, h) < MinFillSize * AmountScale
            /\ GetRemainingIntervals(h) > 1 THEN "skip"
    ELSE "enqueue"

\* processOrder(order) on the copy the query returned.
SchedProcess ==
    /\ sched.pc = "process"
    /\ LET o == sched.order
           d == processOrderDecision(o, history)
       IN  \/ /\ d = "complete"
              /\ \E dbOK \in DbOutcomes :
                   /\ order' = IF dbOK
                               THEN UpdateOrder([o EXCEPT !.status = "completed"])
                               ELSE order
                   /\ dbFailures' = dbFailures + Failed(dbOK)
              /\ queue' = queue
           \/ /\ d = "enqueue"
              /\ queue' = Offer(queue,
                     NewRequest(o, history, calculateTWAP(WindowMinutes), FALSE))
              /\ UNCHANGED <<order, dbFailures>>
           \/ /\ d \in {"wait", "skip"}
              /\ UNCHANGED <<order, queue, dbFailures>>
    /\ sched' = [pc |-> "idle", order |-> NoOrder]
    /\ UNCHANGED <<now, params, history, cache, worker, monitor, api, evt,
                   response, metrics, stats, htlc, feed, twap, swap, bridge, priceCache, life, registry>>

\* ExecuteOrderManually up to the send on the queue (PriceHint left zero).
ManualExecute ==
    /\ Len(history) < ExecutionIntervals
    /\ queue' = Offer(queue, NewRequest(ReadOrder, history, 0, TRUE))
    /\ UNCHANGED <<now, params, order, history, cache, worker, sched, monitor,
                   api, evt, response, metrics, stats, dbFailures, htlc, feed, twap, swap, bridge, priceCache, life, registry>>

\* ------------------------------------------------------------------------
\* Execution worker: executionWorker / executeInterval
\* ------------------------------------------------------------------------

\* executionWorker receives a request; executeInterval reads the order.
WorkerTake ==
    /\ worker.pc = "idle"
    /\ queue # <<>>
    /\ metrics.total < MaxExecutions
    /\ queue' = Tail(queue)
    /\ \E dbOK \in DbOutcomes :
         /\ IF dbOK
            THEN /\ worker' = [pc |-> "exec", req |-> Head(queue),
                               order |-> ReadOrder]
                 /\ response' = response
            ELSE /\ worker' = worker
                 /\ response' = [NoResponse EXCEPT !.error = "get_order"]
         /\ dbFailures' = dbFailures + Failed(dbOK)
    /\ UNCHANGED <<now, params, order, history, cache, sched, monitor, api,
                   evt, metrics, stats, htlc, feed, twap, swap, bridge, priceCache, life, registry>>

\* executeInterval: market price, falling back to the request's hint.
MarketPrice(req) ==
    IF getCurrentPrice = 0 THEN req.hint ELSE getCurrentPrice

\* A gate that lets every interval through.
GateNeverRejects(req) == FALSE

\* executeInterval's slippage gate before submission.
SlippageRejected(req) ==
    /\ req.hint # 0
    /\ calculateSlippage(req.hint, MarketPrice(req)) > req.maxSlippage

\* executeInterval: the execution record built from the swap's result.
ExecutionRecord(req, sw) ==
    [interval |-> req.interval, ts |-> now, amount |-> ToNumeric0(sw.amount),
     price |-> sw.price]

\* executeInterval: the order copy after "Update order state", as UpdateOrder
\* hands it to the database (executed_amount is DECIMAL(78,0)).
FilledOrder(o, sw) ==
    LET executed == o.executed * AmountScale + sw.amount
    IN  [status   |-> IF executed >= SourceAmount * AmountScale
                      THEN "completed" ELSE "executing",
         executed |-> ToNumeric0(executed),
         lastExec |-> now,
         avgPrice |-> UpdateAveragePrice(o.avgPrice, executed, sw.amount, sw.price)]

\* A success counted in the total only.
CountsTotalOnly(m) ==
    [m EXCEPT !.total = @ + 1]

\* updateMetricsOnSuccess
updateMetricsOnSuccess(m) ==
    [m EXCEPT !.total = @ + 1, !.successful = @ + 1]

\* executeInterval after GetOrder, up to the response.
WorkerExecute ==
    /\ worker.pc = "exec"
    /\ LET req == worker.req
           o == worker.order
       IN  IF SlippageRejected(req)
           THEN /\ response' = [NoResponse EXCEPT !.error = "slippage"]
                /\ UNCHANGED <<order, history, metrics, dbFailures>>
           ELSE \E sec \in SwapSeconds, recOK \in DbOutcomes, updOK \in DbOutcomes :
                  LET sw == executeSwap(req.target, MarketPrice(req), sec)
                  IN  /\ dbFailures + Failed(recOK) + Failed(updOK) <= MaxStoreFailures
                      /\ history' = IF recOK
                                    THEN Append(history, ExecutionRecord(req, sw))
                                    ELSE history
                      /\ order' = IF updOK THEN UpdateOrder(FilledOrder(o, sw))
                                  ELSE order
                      /\ dbFailures' = dbFailures + Failed(recOK) + Failed(updOK)
                      /\ metrics' = updateMetricsOnSuccess(metrics)
                      /\ response' = [success |-> TRUE, error |-> "none"]
    /\ worker' = [pc |-> "idle", req |-> NoRequest, order |-> NoOrder]
    /\ UNCHANGED <<now, params, queue, cache, sched, monitor, api, evt, stats, htlc, feed, twap, swap, bridge, priceCache, life, registry>>

\* ------------------------------------------------------------------------
\* Orchestrator: timeout monitor and order_executed handler
\* ------------------------------------------------------------------------

\* checkOrderTimeouts: GetExecutableOrders returns the order, or nothing.
MonitorQuery ==
    /\ monitor.pc = "idle"
    /\ monitor' = [pc |-> "check",
                   order |-> IF Executable(order) THEN ReadOrder ELSE NoOrder]
    /\ UNCHANGED <<now, params, order, history, queue, cache, worker, sched,
                   api, evt, response, metrics, stats, dbFailures, htlc, feed, twap, swap, bridge, priceCache, life, registry>>

\* checkOrderTimeouts: the loop body for the order.
MonitorCheck ==
    /\ monitor.pc = "check"
    /\ IF monitor.order # NoOrder /\ now >= TimeoutTimestamp
       THEN /\ stats.failedOrders < MaxExpirations
            /\ \E dbOK \in DbOutcomes :
                 /\ order' = IF dbOK
                             THEN UpdateOrder([monitor.order EXCEPT !.status = "expired"])
                             ELSE order
                 /\ dbFailures' = dbFailures + Failed(dbOK)
            /\ stats' = [stats EXCEPT !.failedOrders = @ + 1,
                                      !.activeOrders = @ - 1]
       ELSE UNCHANGED <<order, stats, dbFailures>>
    /\ monitor' = [pc |-> "idle", order |-> NoOrder]
    /\ UNCHANGED <<now, params, history, queue, cache, worker, sched, api,
                   evt, response, metrics, htlc, feed, twap, swap, bridge, priceCache, life, registry>>

\* handleOrderExecuted: GetOrder.
EventRead ==
    /\ evt.pc = "idle"
    /\ evt.events < MaxEvents
    /\ evt' = [evt EXCEPT !.pc = "write", !.order = ReadOrder,
                          !.events = @ + 1]
    /\ UNCHANGED <<now, params, order, history, queue, cache, worker, sched,
                   monitor, api, response, metrics, stats, dbFailures, htlc, feed, twap, swap, bridge, priceCache, life, registry>>

\* handleOrderExecuted: status = executing, UpdateOrder.
EventWrite ==
    /\ evt.pc = "write"
    /\ \E dbOK \in DbOutcomes :
         /\ order' = IF dbOK
                     THEN UpdateOrder([evt.order EXCEPT !.status = "executing"])
                     ELSE order
         /\ dbFailures' = dbFailures + Failed(dbOK)
    /\ evt' = [evt EXCEPT !.pc = "idle", !.order = NoOrder]
    /\ UNCHANGED <<now, params, history, queue, cache, worker, sched, monitor,
                   api, response, metrics, stats, htlc, feed, twap, swap, bridge, priceCache, life, registry>>

\* The events the chain adapters deliver to handleEvent besides
\* order_executed: one transaction of each type, htlc_claimed with the
\* secret of the order's hash lock or with another one.
ChainEvents ==
    [type : {"order_created", "order_completed", "htlc_created", "price_update"},
     secret : {"none"}]
      \cup [type : {"htlc_claimed"}, secret : {"valid", "wrong"}]

\* PostgreSQLDB.CreateHTLC: INSERT; the address is the primary key.  The
\* status is the one GetHTLCStatus reports.
CreateHTLC(row, ok) ==
    IF ok /\ row.status = "none" THEN [status |-> "active", secret |-> "none"]
    ELSE row

\* handleEvent: dispatch on the event type and run the handler.
HandleEvent ==
    /\ evt.deliveries < MaxDeliveries
    /\ \E e \in ChainEvents :
         /\ evt' = [evt EXCEPT !.seen = @ \cup {e}, !.deliveries = @ + 1,
                               !.last = e]
         /\ stats' =
              CASE e.type = "order_created" ->
                     [stats EXCEPT !.totalOrders = @ + 1, !.activeOrders = @ + 1]
                [] e.type = "order_completed" ->
                     [stats EXCEPT !.completedOrders = @ + 1,
                                   !.activeOrders = @ - 1]
                [] e.type = "htlc_claimed" ->
                     [stats EXCEPT !.successfulSwaps = @ + 1]
                [] OTHER -> stats
         /\ IF e.type = "htlc_created"
            THEN \E dbOK \in DbOutcomes :
                   /\ htlc' = CreateHTLC(htlc, dbOK)
                   /\ dbFailures' = dbFailures + Failed(dbOK)
            ELSE UNCHANGED <<htlc, dbFailures>>
    /\ UNCHANGED <<now, params, order, history, queue, cache, worker, sched,
                   monitor, api, response, metrics, feed, twap, swap, bridge, priceCache, life, registry>>

\* ------------------------------------------------------------------------
\* REST handler cancelOrder
\* ------------------------------------------------------------------------

\* Handler.canCancelOrder
canCancelOrder(status) == status \in {"pending", "executing", "partially_filled"}

\* cancelOrder: GetOrder for a caller who is or is not the order's user.
CancelRead ==
    /\ api.pc = "idle"
    /\ api.calls < MaxCancels
    /\ \E owner \in BOOLEAN :
         api' = [pc |-> "loaded", order |-> ReadOrder, owner |-> owner,
                 calls |-> api.calls + 1,
                 caller |-> IF owner THEN "owner" ELSE "other"]
    /\ UNCHANGED <<now, params, order, history, queue, cache, worker, sched,
                   monitor, evt, response, metrics, stats, dbFailures, htlc, feed, twap, swap, bridge, priceCache, life, registry>>

\* cancelOrder: ownership check, status check, UpdateOrder.
CancelWrite ==
    /\ api.pc = "loaded"
    /\ IF api.owner /\ canCancelOrder(api.order.status)
       THEN \E dbOK \in DbOutcomes :
              /\ order' = IF dbOK
                          THEN UpdateOrder([api.order EXCEPT !.status = "cancelled"])
                          ELSE order
              /\ dbFailures' = dbFailures + Failed(dbOK)
       ELSE UNCHANGED <<order, dbFailures>>
    /\ api' = [api EXCEPT !.pc = "idle", !.order = NoOrder, !.owner = FALSE,
                          !.caller = "none"]
    /\ UNCHANGED <<now, params, history, queue, cache, worker, sched, monitor,
                   evt, response, metrics, stats, htlc, feed, twap, swap, bridge, priceCache, life, registry>>

\* The repository holds a second cancelOrder for PUT /orders/:id/cancel, which
\* takes the caller from the X-User-Address header; a build routes one of the
\* two.  Callers of that handler: the owner, someone else, or no header.
Callers == {"owner", "other", "anonymous"}

\* cancelOrder (header variant): GetOrder.
HeaderCancelRead ==
    /\ api.pc = "idle"
    /\ api.calls < MaxCancels
    /\ \E caller \in Callers :
         api' = [pc |-> "loadedHeader", order |-> ReadOrder,
                 owner |-> (caller # "other"), calls |-> api.calls + 1,
                 caller |-> caller]
    /\ UNCHANGED <<now, params, order, history, queue, cache, worker, sched,
                   monitor, evt, response, metrics, stats, dbFailures, htlc, feed, twap, swap, bridge, priceCache, life, registry>>

\* cancelOrder (header variant): the status check.
headerCanCancel(status) == status \notin {"completed", "cancelled", "claimed"}

\* cancelOrder (header variant): ownership check, status check, UpdateOrder.
HeaderCancelWrite ==
    /\ api.pc = "loadedHeader"
    /\ IF api.owner /\ headerCanCancel(api.order.status)
       THEN \E dbOK \in DbOutcomes :
              /\ order' = IF dbOK
                          THEN UpdateOrder([api.order EXCEPT !.status = "cancelled"])
                          ELSE order
              /\ dbFailures' = dbFailures + Failed(dbOK)
       ELSE UNCHANGED <<order, dbFailures>>
    /\ api' = [api EXCEPT !.pc = "idle", !.order = NoOrder, !.owner = FALSE,
                          !.caller = "none"]
    /\ UNCHANGED <<now, params, history, queue, cache, worker, sched, monitor,
                   evt, response, metrics, stats, htlc, feed, twap, swap, bridge, priceCache, life, registry>>

\* ------------------------------------------------------------------------
\* The slippage gate on chosen prices
\* ------------------------------------------------------------------------

\* TWAP values (price units of 10^-DivisionPrecision) the scheduler hinted.
GateExpectedPrices == 19995 .. 20005

\* How far below the TWAP the current price lies.
GateDeviations == {0, 199, 200, 201}

\* max_slippage of the order in these runs.
GateSlippages == {99, 100}

\* The scheduler has enqueued interval 0 when the cache held the TWAP price
\* alone; the feed has since stored the current price.
InitGate ==
    /\ now = 0
    /\ params \in [maxSlippage : GateSlippages,
                   timeoutHeight : {MockCurrentHeight + 100}]
    /\ order = [status |-> "pending", executed |-> 0, lastExec |-> -1,
                avgPrice |-> 0]
    /\ history = <<>>
    /\ \E e \in GateExpectedPrices, d \in GateDeviations :
         /\ cache = <<[ts |-> 0, price |-> e], [ts |-> 0, price |-> e - d]>>
         /\ queue = <<NewRequest(order, history, e, FALSE)>>
    /\ worker = [pc |-> "idle", req |-> NoRequest, order |-> NoOrder]
    /\ sched = [pc |-> "idle", order |-> NoOrder]
    /\ monitor = [pc |-> "idle", order |-> NoOrder]
    /\ api = [pc |-> "idle", order |-> NoOrder, owner |-> FALSE, calls |-> 0,
              caller |-> "none"]
    /\ evt = [pc |-> "idle", order |-> NoOrder, events |-> 0,
              seen |-> {}, deliveries |-> 0, last |-> NoEvent]
    /\ response = NoResponse
    /\ metrics = [total |-> 0, successful |-> 0, failed |-> 0]
    /\ stats = [failedOrders |-> 0, activeOrders |-> 0, totalOrders |-> 0,
                completedOrders |-> 0, successfulSwaps |-> 0]
    /\ dbFailures = 0
    /\ htlc = NoHTLC
    /\ feed = NoFeed
    /\ twap = -1
    /\ swap = NoSwap
    /\ priceCache = [pair \in CachedPairs |-> <<>>]
    /\ life = Started
    /\ registry = Registered
    /\ bridge = BridgeDeployed(0)

\* The contract deployed with one of the fee rates the constructor admits.
InitBridge ==
    /\ InitOffChain(<<>>)
    /\ \E rate \in ProtocolFeeRates : bridge = BridgeDeployed(rate)

\* ------------------------------------------------------------------------
\* Start and stop: main, Engine.Start, Orchestrator.Start and their loops
\* ------------------------------------------------------------------------

\* The process runs until main has returned and the runtime has exited.
Alive == life.main # "exited"

\* The stop channel a loop selects on beside ctx.Done().
StopChan(l) ==
    IF l \in EngineLoops THEN life.engineStopChan ELSE life.orchestratorStopChan

\* A worker that selects on its queue alone.
StopMissedByWorker(l) ==
    /\ l # "executionWorker"
    /\ life.ctx = "cancelled" \/ StopChan(l) = "closed"

\* case <-ctx.Done() or case <-stopChan is ready in the loop's select.
\* eventSubscriber waits for ctx.Done() alone.
StopObserved(l) ==
    \/ life.ctx = "cancelled"
    \/ l # "eventSubscriber" /\ StopChan(l) = "closed"

\* The select of a loop takes its ticker's (or the queue's) case and the loop
\* enters its body.  Go chooses among the ready cases at random, so this can
\* happen with ctx.Done() ready as well.
LoopEnter(l) ==
    /\ Alive
    /\ l # "eventSubscriber"
    /\ life.loops[l] = "select"
    /\ life' = [life EXCEPT !.loops[l] = "busy"]
    /\ UNCHANGED <<now, params, order, history, queue, cache, worker, sched,
                   monitor, api, evt, response, metrics, stats, dbFailures,
                   htlc, feed, twap, swap, bridge, priceCache, registry>>

\* The body (updatePriceFeeds, processExecutableOrders, executeInterval,
\* updateMetrics, checkOrderTimeouts, updateStatistics) returns.
LoopDone(l) ==
    /\ Alive
    /\ life.loops[l] = "busy"
    /\ life' = [life EXCEPT !.loops[l] = "select"]
    /\ UNCHANGED <<now, params, order, history, queue, cache, worker, sched,
                   monitor, api, evt, response, metrics, stats, dbFailures,
                   htlc, feed, twap, swap, bridge, priceCache, registry>>

\* The select takes the stop case and the loop returns (wg.Done).
\* eventSubscriber unsubscribes every adapter on its way out.
LoopExit(l) ==
    /\ Alive
    /\ life.loops[l] = "select"
    /\ StopObserved(l)
    /\ life' = [life EXCEPT
                  !.loops[l] = "exited",
                  !.subscribed = IF l = "eventSubscriber" /\ @ = "yes"
                                 THEN "no" ELSE @]
    /\ UNCHANGED <<now, params, order, history, queue, cache, worker, sched,
                   monitor, api, evt, response, metrics, stats, dbFailures,
                   htlc, feed, twap, swap, bridge, priceCache, registry>>

\* The goroutines eventSubscriber started call adapter.SubscribeToEvents.
Subscribe ==
    /\ Alive
    /\ life.subscribed = "pending"
    /\ life' = [life EXCEPT !.subscribed = "yes"]
    /\ UNCHANGED <<now, params, order, history, queue, cache, worker, sched,
                   monitor, api, evt, response, metrics, stats, dbFailures,
                   htlc, feed, twap, swap, bridge, priceCache, registry>>

\* main receives SIGINT or SIGTERM and calls cancel().
Cancel ==
    /\ life.main = "serving"
    /\ life' = [life EXCEPT
                  !.main = "cancelled",
                  !.ctx = "cancelled",
                  !.atStop = IF \A l \in Loops \ {"eventSubscriber"} :
                                   life.loops[l] = "busy"
                             THEN "busy" ELSE "some"]
    /\ UNCHANGED <<now, params, order, history, queue, cache, worker, sched,
                   monitor, api, evt, response, metrics, stats, dbFailures,
                   htlc, feed, twap, swap, bridge, priceCache, registry>>

\* Engine.Start after <-ctx.Done(): close(e.stopChan), then e.wg.Wait().
EngineStop ==
    /\ Alive
    /\ life.engine = "waiting"
    /\ life.ctx = "cancelled"
    /\ life' = [life EXCEPT !.engine = "joining", !.engineStopChan = "closed"]
    /\ UNCHANGED <<now, params, order, history, queue, cache, worker, sched,
                   monitor, api, evt, response, metrics, stats, dbFailures,
                   htlc, feed, twap, swap, bridge, priceCache, registry>>

\* e.wg.Wait() returns and Engine.Start returns nil.
EngineReturn ==
    /\ Alive
    /\ life.engine = "joining"
    /\ \A l \in EngineLoops : life.loops[l] = "exited"
    /\ life' = [life EXCEPT !.engine = "returned"]
    /\ UNCHANGED <<now, params, order, history, queue, cache, worker, sched,
                   monitor, api, evt, response, metrics, stats, dbFailures,
                   htlc, feed, twap, swap, bridge, priceCache, registry>>

\* Orchestrator.Start after <-ctx.Done(): close(o.stopChan), then o.wg.Wait().
OrchestratorStop ==
    /\ Alive
    /\ life.orchestrator = "waiting"
    /\ life.ctx = "cancelled"
    /\ life' = [life EXCEPT !.orchestrator = "joining",
                            !.orchestratorStopChan = "closed"]
    /\ UNCHANGED <<now, params, order, history, queue, cache, worker, sched,
                   monitor, api, evt, response, metrics, stats, dbFailures,
                   htlc, feed, twap, swap, bridge, priceCache, registry>>

\* o.wg.Wait() returns; DisconnectAll; Orchestrator.Start returns nil.
OrchestratorReturn ==
    /\ Alive
    /\ life.orchestrator = "joining"
    /\ \A l \in OrchestratorLoops : life.loops[l] = "exited"
    /\ life' = [life EXCEPT !.orchestrator = "returned", !.connected = FALSE]
    /\ UNCHANGED <<now, params, order, history, queue, cache, worker, sched,
                   monitor, api, evt, response, metrics, stats, dbFailures,
                   htlc, feed, twap, swap, bridge, priceCache, registry>>

\* main: server.Shutdown(shutdownCtx) returns.
MainShutdown ==
    /\ life.main = "cancelled"
    /\ life' = [life EXCEPT !.main = "shutdown"]
    /\ UNCHANGED <<now, params, order, history, queue, cache, worker, sched,
                   monitor, api, evt, response, metrics, stats, dbFailures,
                   htlc, feed, twap, swap, bridge, priceCache, registry>>

\* main returns; its deferred calls run, db.Close() among them.
MainReturn ==
    /\ life.main = "shutdown"
    /\ life' = [life EXCEPT !.main = "returned", !.store = "closed"]
    /\ UNCHANGED <<now, params, order, history, queue, cache, worker, sched,
                   monitor, api, evt, response, metrics, stats, dbFailures,
                   htlc, feed, twap, swap, bridge, priceCache, registry>>

\* ------------------------------------------------------------------------
\* Orchestrator: the eventHandlers map
\* ------------------------------------------------------------------------

\* AddEventHandler / RemoveEventHandler: o.mutex.Lock().
HandlerLock ==
    /\ registry.reader.result # "fatal"
    /\ registry.mutex = "free"
    /\ registry.calls < MaxRegistryCalls
    /\ \E op \in {"add", "remove"}, t \in HandlerTypes :
         registry' = [registry EXCEPT
                        !.mutex = "held",
                        !.writer = [pc |-> "locked", op |-> op, type |-> t],
                        !.calls = @ + 1]
    /\ UNCHANGED <<now, params, order, history, queue, cache, worker, sched,
                   monitor, api, evt, response, metrics, stats, dbFailures,
                   htlc, feed, twap, swap, bridge, priceCache, life>>

\* AddEventHandler / RemoveEventHandler: the map assignment or the delete
\* has begun.  A lookup that is under way now overlaps it.
HandlerWrite ==
    /\ registry.reader.result # "fatal"
    /\ registry.writer.pc = "locked"
    /\ registry' = [registry EXCEPT
                      !.writer.pc = "writing",
                      !.raced = @ \/ registry.reader.pc = "lookup"]
    /\ UNCHANGED <<now, params, order, history, queue, cache, worker, sched,
                   monitor, api, evt, response, metrics, stats, dbFailures,
                   htlc, feed, twap, swap, bridge, priceCache, life>>

\* AddEventHandler / RemoveEventHandler: the map is written, the deferred
\* o.mutex.Unlock() runs.
HandlerUnlock ==
    /\ registry.reader.result # "fatal"
    /\ registry.writer.pc = "writing"
    /\ registry' = [registry EXCEPT
                      !.eventHandlers =
                          IF registry.writer.op = "add"
                          THEN @ \cup {registry.writer.type}
                          ELSE @ \ {registry.writer.type},
                      !.mutex = "free",
                      !.writer = [pc |-> "idle", op |-> "none", type |-> "none"]]
    /\ UNCHANGED <<now, params, order, history, queue, cache, worker, sched,
                   monitor, api, evt, response, metrics, stats, dbFailures,
                   htlc, feed, twap, swap, bridge, priceCache, life>>

\* handleEvent, called on the adapter's goroutine: the lookup
\* o.eventHandlers[event.EventType] begins.  No lock is taken.
DispatchLookup ==
    /\ registry.reader.result # "fatal"
    /\ registry.reader.pc = "idle"
    /\ registry.calls < MaxRegistryCalls
    /\ \E t \in HandlerTypes :
         registry' = [registry EXCEPT
                        !.reader = [pc |-> "lookup", type |-> t,
                                    result |-> "none"],
                        !.raced = registry.writer.pc = "writing",
                        !.calls = @ + 1]
    /\ UNCHANGED <<now, params, order, history, queue, cache, worker, sched,
                   monitor, api, evt, response, metrics, stats, dbFailures,
                   htlc, feed, twap, swap, bridge, priceCache, life>>

\* What a lookup of type t in the map m gives.
Lookup(m, t) == IF t \in m THEN "handler" ELSE "missing"

\* handleEvent: the lookup ends.  A lookup that overlapped a write is a data
\* race: it gives the handler, gives none, or the runtime stops the process
\* (concurrent map read and map write).
DispatchReturn ==
    /\ registry.reader.pc = "lookup"
    /\ \E result \in IF registry.raced
                     THEN {"handler", "missing", "fatal"}
                     ELSE {Lookup(registry.eventHandlers, registry.reader.type)} :
         registry' = [registry EXCEPT !.reader.pc = "idle",
                                      !.reader.result = result,
                                      !.raced = FALSE]
    /\ UNCHANGED <<now, params, order, history, queue, cache, worker, sched,
                   monitor, api, evt, response, metrics, stats, dbFailures,
                   htlc, feed, twap, swap, bridge, priceCache, life>>

\* The runtime ends the process, and every goroutine with it.
ProcessExit ==
    /\ life.main = "returned"
    /\ life' = [life EXCEPT !.main = "exited"]
    /\ UNCHANGED <<now, params, order, history, queue, cache, worker, sched,
                   monitor, api, evt, response, metrics, stats, dbFailures,
                   htlc, feed, twap, swap, bridge, priceCache, registry>>

\* ExecuteOrderManually: both reads, the checks, the non-blocking send.  The
\* call returns an error at once or goes on to wait on its response channel.
ManualCall ==
    /\ Alive
    /\ life.manual.pc # "waiting"
    /\ life.manual.calls < MaxManualCalls
    /\ \E dbOK \in DbOutcomes :
         /\ dbFailures + Failed(dbOK) <= MaxStoreFailures
         /\ dbFailures' = dbFailures + Failed(dbOK)
         /\ IF dbOK /\ Len(history) < ExecutionIntervals
                    /\ Len(queue) < QueueCapacity
            THEN /\ queue' = Append(queue, NewRequest(ReadOrder, history, 0, TRUE))
                 /\ life' = [life EXCEPT !.manual.pc = "waiting",
                                         !.manual.result = "none",
                                         !.manual.calls = @ + 1]
            ELSE /\ queue' = queue
                 /\ life' = [life EXCEPT !.manual.pc = "returned",
                                         !.manual.result = "error",
                                         !.manual.calls = @ + 1]
    /\ UNCHANGED <<now, params, order, history, cache, worker, sched,
                   monitor, api, evt, response, metrics, stats,
                   htlc, feed, twap, swap, bridge, priceCache, registry>>

\* The request of the caller is still in the queue or with the worker.
ManualPending ==
    \/ \E i \in 1..Len(queue) : queue[i].manual
    \/ worker.pc = "exec" /\ worker.req.manual

\* return <-request.ResponseChannel: the worker has sent its response.
ManualReturn ==
    /\ Alive
    /\ life.manual.pc = "waiting"
    /\ ~ManualPending
    /\ life' = [life EXCEPT !.manual.pc = "returned",
                            !.manual.result = "response"]
    /\ UNCHANGED <<now, params, order, history, queue, cache, worker, sched,
                   monitor, api, evt, response, metrics, stats, dbFailures,
                   htlc, feed, twap, swap, bridge, priceCache, registry>>

\* executionWorker's select takes the queue's case: only a worker that has
\* not returned receives.
RunningWorkerTake ==
    /\ life.loops["executionWorker"] # "exited"
    /\ WorkerTake

\* executionWorker's select takes the stop case, between two requests.
WorkerExit ==
    /\ worker.pc = "idle"
    /\ LoopExit("executionWorker")

\* ------------------------------------------------------------------------
\* Specifications
\* ------------------------------------------------------------------------

\* The eventHandlers map under registration, removal and dispatch.
NextRegistry ==
    \/ HandlerLock
    \/ HandlerWrite
    \/ HandlerUnlock
    \/ DispatchLookup
    \/ DispatchReturn

SpecRegistry == Init /\ [][NextRegistry]_vars

\* Manual executions, the execution worker and the stop signal.
NextManual ==
    \/ ManualCall
    \/ ManualReturn
    \/ RunningWorkerTake
    \/ WorkerExecute
    \/ Cancel
    \/ WorkerExit

SpecManual == InitFed /\ [][NextManual]_vars

\* The worker goes on when it can, and so does the caller.  The second
\* conjunct is WF_vars(WorkerExecute) with its ENABLED written out: the step
\* is enabled exactly when the worker holds a request, and it hands it back.
FairManual ==
    /\ SpecManual
    /\ WF_vars(RunningWorkerTake)
    /\ []<>(worker.pc # "exec")
    /\ WF_vars(ManualReturn)

\* Engine.Start and Orchestrator.Start under the stop signal.
NextStop ==
    \/ \E l \in Loops : LoopEnter(l)
    \/ \E l \in Loops : LoopDone(l)
    \/ \E l \in Loops : LoopExit(l)
    \/ Subscribe
    \/ Cancel
    \/ EngineStop
    \/ EngineReturn
    \/ OrchestratorStop
    \/ OrchestratorReturn

\* The order is one the scheduler can select.
InitStop == Init /\ params.timeoutHeight > MockCurrentHeight

SpecStop == InitStop /\ [][NextStop]_vars

\* A body that has been entered returns; a select that finds its stop case
\* ready again and again takes it at last (the choice among ready cases is
\* random); Start goes on when it can.
FairStop ==
    /\ SpecStop
    /\ \A l \in Loops : WF_vars(LoopDone(l)) /\ SF_vars(LoopExit(l))
    /\ WF_vars(EngineStop) /\ WF_vars(EngineReturn)
    /\ WF_vars(OrchestratorStop) /\ WF_vars(OrchestratorReturn)

\* The same with main going on to shut down, return and exit.
NextShutdown ==
    \/ NextStop
    \/ MainShutdown
    \/ MainReturn
    \/ ProcessExit

SpecShutdown == InitStop /\ [][NextShutdown]_vars

\* The TWAP engine: clock, price feed, scheduler, manual execution, worker.
NextEngine ==
    \/ Tick
    \/ PriceFeed
    \/ SchedQuery
    \/ SchedProcess
    \/ ManualExecute
    \/ WorkerTake
    \/ WorkerExecute

SpecEngine == Init /\ [][NextEngine]_vars

\* The order row under its writers: scheduler and worker, the timeout
\* monitor and cancelOrder.
NextStore ==
    \/ Tick
    \/ SchedQuery
    \/ SchedProcess
    \/ WorkerTake
    \/ WorkerExecute
    \/ MonitorQuery
    \/ MonitorCheck
    \/ CancelRead
    \/ CancelWrite

SpecStore == InitFed /\ [][NextStore]_vars

\* The order row under its writers: scheduler and worker, the
\* order_executed handler and cancelOrder.
NextEvents ==
    \/ Tick
    \/ SchedQuery
    \/ SchedProcess
    \/ WorkerTake
    \/ WorkerExecute
    \/ EventRead
    \/ EventWrite
    \/ CancelRead
    \/ CancelWrite

SpecEvents == InitFed /\ [][NextEvents]_vars

\* The header variant of cancelOrder against the scheduler, the worker and
\* the monitor (SpecStore has the other variant in the same company).
NextCancel ==
    \/ Tick
    \/ SchedQuery
    \/ SchedProcess
    \/ WorkerTake
    \/ WorkerExecute
    \/ MonitorQuery
    \/ MonitorCheck
    \/ HeaderCancelRead
    \/ HeaderCancelWrite

SpecCancel == InitFed /\ [][NextCancel]_vars

\* The bridge contract: transactions and blocks.
NextBridge ==
    \/ Mine
    \/ createTWAPOrder
    \/ executeTWAPInterval
    \/ cancelOrder
    \/ claimHTLC

SpecBridge == InitBridge /\ [][NextBridge]_vars

\* The scheduler loop and the execution worker alone, with a price in the
\* cache.
NextSchedule ==
    \/ Tick
    \/ SchedQuery
    \/ SchedProcess
    \/ WorkerTake
    \/ WorkerExecute

SpecSchedule == InitFed /\ [][NextSchedule]_vars

\* The adapter manager pairing the HTLCs of a cross-chain swap.
NextSwap ==
    \/ SwapRequest
    \/ SwapCreateSource
    \/ SwapCreateTarget

SpecSwap == Init /\ [][NextSwap]_vars

\* The price cache: points arrive, time passes, the TWAP is asked for.
NextTwap ==
    \/ Elapse
    \/ PriceFeed
    \/ TwapQuery

SpecTwap == Init /\ [][NextTwap]_vars

\* The price cache of two pairs over a day and a half, a first point of
\* each pair being stored at the start.
NextCache ==
    \/ ElapseHalfDay
    \/ RecordPoint

SpecCache == InitFed /\ [][NextCache]_vars

\* One run of the price feed loop, call by call.
NextFeeds ==
    \/ FeedStart
    \/ FeedCall
    \/ FeedReturn

SpecFeeds == Init /\ [][NextFeeds]_vars

\* The orchestrator's event sink beside the scheduler and the worker.
NextSink ==
    \/ Tick
    \/ SchedQuery
    \/ SchedProcess
    \/ WorkerTake
    \/ WorkerExecute
    \/ HandleEvent

SpecSink == InitFed /\ [][NextSink]_vars

\* The orchestrator's statistics under their writers: the event sink and
\* the timeout monitor.
NextStats ==
    \/ Tick
    \/ MonitorQuery
    \/ MonitorCheck
    \/ HandleEvent

SpecStats == InitFed /\ [][NextStats]_vars

\* The execution worker on a queued interval with chosen TWAP and price.
NextGate ==
    \/ WorkerTake
    \/ WorkerExecute

SpecGate == InitGate /\ [][NextGate]_vars

\* ------------------------------------------------------------------------
\* Properties
\* ------------------------------------------------------------------------

\* The worker completes executeInterval in this step.
ExecuteIntervalStep == worker.pc = "exec" /\ worker'.pc = "idle"

\* C1: in every reachable state of the engine, after any scheduled or manual
\* interval executions, 0 <= executed_amount <= source_amount.
C1_ExecutedWithinSource ==
    order.executed >= 0 /\ order.executed <= SourceAmount

\* C2: once the order's status is terminal, no later step changes its status
\* (except completed -> claimed) or its executed_amount.
C2_TerminalFrozen ==
    [][order.status \in Terminal =>
          /\ order'.executed = order.executed
          /\ \/ order'.status = order.status
             \/ order.status = "completed" /\ order'.status = "claimed"]_vars

\* C3: under every interleaving of the writers of the order, executed_amount
\* never decreases and last_execution never moves backwards.
C3_NoStaleOverwrite ==
    [][/\ order'.executed >= order.executed
       /\ order'.lastExec >= order.lastExec]_vars

\* A fill of interval n is on record.
Recorded(n) == \E i \in DOMAIN history : history[i].interval = n

\* C4: of two attempts outstanding for the same interval number only one
\* records a fill: an attempt for an interval already on record appends no
\* execution record and adds nothing to executed_amount.
C4_OneFillPerInterval ==
    [][(ExecuteIntervalStep /\ Recorded(worker.req.interval)) =>
          /\ history' = history
          /\ order'.executed = order.executed]_vars

RECURSIVE SumAmounts(_)
\* Sum of the amounts of a sequence of execution records.
SumAmounts(h) ==
    IF h = <<>> THEN 0 ELSE h[1].amount + SumAmounts(Tail(h))

\* C5: in every reachable state the amounts of the order's execution records
\* add up to its executed_amount, store failures included.
C5_RecordsSumToExecuted == SumAmounts(history) = order.executed

\* C6: the interval numbers of the order's execution records, in append
\* order, are exactly 0, 1, ..., n-1, with n <= execution_intervals.
C6_IntervalNumbersContiguous ==
    /\ Len(history) <= ExecutionIntervals
    /\ \A i \in DOMAIN history : history[i].interval = i - 1

\* C7: in every reachable state, status = completed if and only if
\* executed_amount = source_amount.
C7_CompletedIffFilled ==
    (order.status = "completed") <=> (order.executed = SourceAmount)

\* The request the worker holds carries a non-zero TWAP from which the
\* current price deviates by more than the request's max slippage.
SlippageExceeded ==
    /\ worker.pc = "exec"
    /\ worker.req.hint # 0
    /\ calculateSlippage(worker.req.hint, MarketPrice(worker.req))
          > worker.req.maxSlippage

\* C8: when the TWAP is non-zero and the slippage of the current price
\* against it exceeds S, executeInterval fails and mutates nothing: no record
\* is written, the order row is unchanged, and an executable order stays
\* executable for the next scheduler tick.
C8_SlippageRejectionMutatesNothing ==
    [][(SlippageExceeded /\ worker'.pc = "idle") =>
          /\ response'.success = FALSE
          /\ history' = history
          /\ order' = order
          /\ metrics' = metrics
          /\ (Executable(order) => Executable(order)')]_vars

\* An interval has been refused for slippage and the order is still
\* executable with nothing on record.
C8_Witness ==
    /\ response.error = "slippage"
    /\ worker.pc = "idle"
    /\ history = <<>>
    /\ Executable(order)

\* floor(|expected - actual| * 10000 / expected), 0 when expected is 0.
FloorSlippage(expectedPrice, actualPrice) ==
    IF expectedPrice = 0 THEN 0
    ELSE MulDivMod(Abs(expectedPrice - actualPrice), 10000, expectedPrice)[1]

\* C9: the gate computes floor(|expected - actual| * 10000 / expected) and
\* refuses exactly the requests whose floor-slippage exceeds S (S accepted,
\* S + 1 refused).
C9_GateUsesFloorSlippage ==
    (worker.pc = "exec" /\ worker.req.hint # 0) =>
        LET expected == worker.req.hint
            actual == MarketPrice(worker.req)
        IN  /\ calculateSlippage(expected, actual) = FloorSlippage(expected, actual)
            /\ SlippageRejected(worker.req)
                  <=> FloorSlippage(expected, actual) > worker.req.maxSlippage

\* C10: each pass of the timeout monitor picks up the order when it is
\* pending or executing and its timeout_timestamp has passed, whatever its
\* last execution and timeout_height; the pass leaves it expired; and no
\* interval of an expired order executes.
C10_MonitorExpiresOverdue ==
    [][/\ (/\ monitor.pc = "idle" /\ monitor'.pc = "check"
           /\ now >= TimeoutTimestamp
           /\ order.status \in {"pending", "executing"})
          => monitor'.order = order
       /\ (/\ monitor.pc = "check" /\ monitor'.pc = "idle"
           /\ monitor.order # NoOrder
           /\ now >= TimeoutTimestamp)
          => order'.status = "expired"
       /\ (ExecuteIntervalStep /\ order.status = "expired")
          => (history' = history /\ order' = order)]_vars

\* A cancelOrder call returns in this step.
CancelReturns == api.pc # "idle" /\ api'.pc = "idle"

\* C11: a cancel request changes the order only when the caller is its owner
\* and its status is pending or executing, and then only to cancelled; in
\* every other case the order is left as it is.
C11_CancelOnlyByOwnerWhenActive ==
    [][CancelReturns =>
          IF api.caller = "owner" /\ order.status \in {"pending", "executing"}
          THEN order' = order \/ order' = [order EXCEPT !.status = "cancelled"]
          ELSE order' = order]_vars

\* handleEvent returns from the delivery of event e in this step.
Delivers(e) == evt'.deliveries = evt.deliveries + 1 /\ evt'.last = e

\* C12: an htlc_claimed event with the secret of the hash lock, for a
\* completed order with an active HTLC, moves the order to claimed, the HTLC
\* to claimed with the secret recorded, and adds 1 to successful_swaps.
C12_ClaimEventClaimsOrder ==
    [][(/\ Delivers([type |-> "htlc_claimed", secret |-> "valid"])
        /\ order.status = "completed"
        /\ htlc.status = "active") =>
          /\ order'.status = "claimed"
          /\ htlc' = [status |-> "claimed", secret |-> "valid"]
          /\ stats'.successfulSwaps = stats.successfulSwaps + 1]_vars

\* C13: a second delivery of an event already delivered changes neither the
\* order, nor the HTLC, nor the statistics counters.
C13_ReplayChangesNothing ==
    [][(\E e \in evt.seen : Delivers(e)) =>
          /\ order' = order
          /\ htlc' = htlc
          /\ stats' = stats]_vars

\* The pair and the source of the call made in this step.
CalledPair == TokenPairs[feed.pair]
CalledSource == Sources[feed.source]
FeedCalls == feed.pc = "running" /\ feed.pair <= Len(TokenPairs) /\ feed' # feed

\* C14: whatever the earlier sources of the tick did, a source that answers
\* with a valid price has its point recorded, and that point is then the
\* latest of its pair.
C14_SourceFailuresIsolated ==
    [][(FeedCalls /\ feed'.answer = "price") =>
          /\ Len(feed'.written) = Len(feed.written) + 1
          /\ feed'.written[Len(feed'.written)] =
                [pair |-> CalledPair, source |-> CalledSource,
                 price |-> SourcePrice(CalledPair, CalledSource)]]_vars

\* C15: the tick returns an error exactly when no point was stored in it.
C15_ErrorIffNothingStored ==
    (feed.pc = "idle" /\ feed.ticks > 0) => (feed.err <=> feed.written = <<>>)

\* a tick in which sources failed and points were stored has returned.
C15_Witness ==
    feed.pc = "idle" /\ feed.ticks > 0 /\ feed.lastError /\ feed.written # <<>>

\* processOrder is about to offer a request to a full queue.
OfferOnFullQueue ==
    /\ sched.pc = "process"
    /\ processOrderDecision(sched.order, history) = "enqueue"
    /\ Len(queue) = QueueCapacity

\* C16: the queue never holds more than its capacity; a scheduler that
\* offers to a full queue returns at once (it is idle afterwards), with the
\* queue and the order as they were.
C16_QueueBoundedOfferDrops ==
    [][/\ Len(queue') <= QueueCapacity
       /\ (OfferOnFullQueue /\ sched' # sched) =>
             (sched'.pc = "idle" /\ queue' = queue /\ order' = order)]_vars

C16_Witness == OfferOnFullQueue /\ Executable(order)

\* processOrder runs on an order with one interval left and a free queue slot.
SchedulesLastInterval ==
    /\ sched.pc = "process" /\ sched'.pc = "idle"
    /\ CanExecuteInterval(sched.order)
    /\ GetRemainingIntervals(history) = 1
    /\ Len(queue) < QueueCapacity

\* executeInterval succeeds on the last interval, for the request processOrder
\* made from the order as it is; no store call has failed.
ExecutesLastInterval ==
    /\ ExecuteIntervalStep
    /\ GetRemainingIntervals(history) = 1
    /\ worker.order = order
    /\ worker.req.interval = Len(history)
    /\ worker.req.target = TargetAmount(order, history)
    /\ Len(history') = Len(history) + 1
    /\ dbFailures' = 0

\* C17: with one interval left the request is enqueued whatever the
\* remaining amount R, and its execution fills exactly
\* R = source_amount - executed_amount, so that the order is fully executed.
C17_LastIntervalFillsRemainder ==
    [][/\ SchedulesLastInterval => Len(queue') = Len(queue) + 1
       /\ ExecutesLastInterval =>
             /\ history'[Len(history')].amount = SourceAmount - worker.order.executed
             /\ order'.executed = SourceAmount]_vars

\* GetExecutableOrders returns an order that has executed before.
SelectsExecutedOrder ==
    sched.pc = "idle" /\ sched'.pc = "process" /\ sched'.order.lastExec >= 0

\* executeInterval records a fill for a request of the scheduler, on an order
\* that has executed before.
ScheduledRefill ==
    /\ ExecuteIntervalStep
    /\ ~worker.req.manual
    /\ worker.order.lastExec >= 0
    /\ Len(history') = Len(history) + 1

\* C18: an order that has executed before is selected only when
\* now >= last_execution + (W*60)/K seconds, and a fill the scheduler asked
\* for is never closer than that to the order's previous fill.
C18_SelectedAfterIntervalSeconds ==
    [][/\ SelectsExecutedOrder =>
             now >= sched'.order.lastExec + (WindowMinutes * 60) \div ExecutionIntervals
       /\ ScheduledRefill =>
             now >= worker.order.lastExec + (WindowMinutes * 60) \div ExecutionIntervals]_vars

\* The cached points with timestamp >= now - window.
PointsSince(window) == SelectSeq(cache, LAMBDA p : p.ts >= now - window)

RECURSIVE ReferenceSums(_, _, _)
\* over points 1..i: sum of (price - base) * w and sum of w, with w = 1 for
\* the first point and the gap to the previous point for the others.
ReferenceSums(pts, i, base) ==
    IF i = 0 THEN <<0, 0>>
    ELSE LET prev == ReferenceSums(pts, i - 1, base)
             w == IF i = 1 THEN 1 ELSE pts[i].ts - pts[i - 1].ts
         IN  <<prev[1] + (pts[i].price - base) * w, prev[2] + w>>

\* sum(price * w) / sum(w), computed around the first price and rounded to
\* the price unit.
ReferenceTwap(window) ==
    LET pts == PointsSince(window)
    IN  IF Len(pts) = 0 THEN 0
        ELSE IF Len(pts) = 1 THEN pts[1].price
        ELSE LET sums == ReferenceSums(pts, Len(pts), pts[1].price)
             IN  IF sums[2] = 0 THEN 0
                 ELSE pts[1].price + RoundDivHalfUp(sums[1], sums[2])

\* C19: what calculateTWAP returns is the reference TWAP over the cached
\* points with timestamp >= now - window.
C19_TwapEqualsReference ==
    [][twap' # twap => twap' = ReferenceTwap(WindowMinutes * 60)]_vars

RECURSIVE MeanSums(_, _, _)
\* over records 1..i: sum of (price - base) * amount and sum of amount.
MeanSums(h, i, base) ==
    IF i = 0 THEN <<0, 0>>
    ELSE LET prev == MeanSums(h, i - 1, base)
         IN  <<prev[1] + (h[i].price - base) * h[i].amount, prev[2] + h[i].amount>>

\* sum(price_i * amount_i) / sum(amount_i) over the execution records,
\* computed around the first price and rounded to the price unit.
WeightedMeanPrice(h) ==
    LET sums == MeanSums(h, Len(h), h[1].price)
    IN  h[1].price + RoundDivHalfUp(sums[1], sums[2])

\* C20: when no store call has failed, an order with at least one execution
\* record has average_price equal to the amount-weighted mean of the records'
\* prices, within one unit of the price precision.
C20_AveragePriceIsWeightedMean ==
    (dbFailures = 0 /\ Len(history) >= 1) =>
        Abs(order.avgPrice - WeightedMeanPrice(history)) <= 1

\* C21: when both HTLCs exist, the source was created first, both carry the
\* same hashed secret, the target's timeouts are shorter than the source's
\* by at least 100 blocks and 3600 seconds, and they are positive.
C21_TargetTimeoutsShorterAndValid ==
    Len(swap.created) = 2 =>
        LET src == swap.created[1]
            tgt == swap.created[2]
        IN  /\ src.chain = "source" /\ tgt.chain = "target"
            /\ tgt.hashedSecret = src.hashedSecret
            /\ tgt.timeoutHeight <= src.timeoutHeight - 100
            /\ tgt.timeoutTimestamp <= src.timeoutTimestamp - 3600
            /\ tgt.timeoutHeight > 0
            /\ tgt.timeoutTimestamp > 0

\* C22: once the source HTLC exists and the creation of the target HTLC has
\* failed, a refund of the source HTLC is scheduled.
C22_RefundScheduledOnTargetFailure ==
    (swap.error = "target" /\ Len(swap.created) = 1) =>
        swap.created[1] \in swap.refunds

\* Every record written so far carries source_amount / K.
EvenFillsSoFar ==
    \A i \in 1 .. Len(history) :
        history[i].amount = SourceAmount \div ExecutionIntervals

\* executeInterval fills the whole target of its request and stores it, after
\* a history of even fills and no store failure.
FullFill ==
    /\ ExecuteIntervalStep
    /\ EvenFillsSoFar
    /\ dbFailures' = 0
    /\ Len(history') = Len(history) + 1
    /\ history'[Len(history')].amount * AmountScale = worker.req.target

\* C23: when every submission fills its whole target, each fill is one of at
\* most K records of source_amount / K; the order is executing after every
\* fill but the K-th and completed with executed_amount = source_amount
\* after the K-th.
C23_EvenFillsReachCompleted ==
    [][FullFill =>
          /\ history'[Len(history')].amount = SourceAmount \div ExecutionIntervals
          /\ Len(history') <= ExecutionIntervals
          /\ order'.status = IF Len(history') = ExecutionIntervals
                             THEN "completed" ELSE "executing"
          /\ (Len(history') = ExecutionIntervals =>
                 order'.executed = SourceAmount)]_vars

\* This step is a transaction calling fn (reverted or not).
BridgeCall(fn) == bridge'.calls = bridge.calls + 1 /\ bridge'.last.fn = fn

\* C24: a successful executeTWAPInterval comes from an authorized executor,
\* appends exactly one record with the amount and the price of the call,
\* adds intervalAmount to executedAmount and, on the first execution, sets
\* averagePrice to the execution price.
C24_ExecuteAppendsOneRecord ==
    [][(BridgeCall("execute") /\ bridge'.last.ok) =>
          LET call == bridge'.last
              n == Len(bridge.history)
          IN  /\ call.sender \in AuthorizedExecutors
              /\ Len(bridge'.history) = n + 1
              /\ SubSeq(bridge'.history, 1, n) = bridge.history
              /\ bridge'.history[n + 1].amount = call.amount
              /\ bridge'.history[n + 1].price = call.price
              /\ bridge'.order.executedAmount =
                    bridge.order.executedAmount + call.amount
              /\ (n = 0 => bridge'.order.averagePrice = call.price)]_vars

\* the first interval of an order has been executed
C24_Witness ==
    /\ bridge.last.fn = "execute" /\ bridge.last.ok
    /\ Len(bridge.history) = 1
    /\ bridge.order.averagePrice = bridge.last.price

\* C25: cancelOrder by the owner of an Executing order goes through, sets
\* the status to Cancelled and pays sourceAmount - executedAmount to the
\* owner out of the contract's balance; from any other account it changes
\* nothing.
C25_OwnerCancelRefundsRemainder ==
    [][BridgeCall("cancel") =>
          LET o == bridge.order
              sender == bridge'.last.sender
          IN  /\ (sender = o.user /\ o.status = "Executing") =>
                    /\ bridge'.last.ok
                    /\ bridge'.order = [o EXCEPT !.status = "Cancelled"]
                    /\ bridge'.paid[sender] =
                          bridge.paid[sender] + (o.sourceAmount - o.executedAmount)
                    /\ bridge'.balance =
                          bridge.balance - (o.sourceAmount - o.executedAmount)
              /\ sender # o.user =>
                    /\ ~bridge'.last.ok
                    /\ bridge'.order = o
                    /\ bridge'.paid = bridge.paid
                    /\ bridge'.balance = bridge.balance]_vars

\* the owner has cancelled an order that was executed in part
C25_Witness ==
    /\ bridge.last.fn = "cancel" /\ bridge.last.ok
    /\ bridge.order.status = "Cancelled"
    /\ bridge.order.executedAmount > 0
    /\ bridge.paid[bridge.order.user] =
          bridge.order.sourceAmount - bridge.order.executedAmount

\* C26: after a successful createTWAPOrder the stored order has the caller
\* as user, the sourceAmount of the call and status Executing; for an ERC20
\* order the contract holds sourceAmount of the token.
C26_CreatedOrderHoldsSourceAmount ==
    [][(BridgeCall("create") /\ bridge'.last.ok) =>
          LET call == bridge'.last
          IN  /\ bridge'.order.user = call.sender
              /\ bridge'.order.sourceAmount = call.amount
              /\ bridge'.order.status = "Executing"
              /\ (bridge'.order.sourceToken = "ERC20" =>
                     bridge'.balance = call.amount)]_vars

\* processOrder runs to its end on an order that is due and has intervals left.
SizesInterval ==
    /\ sched.pc = "process" /\ sched'.pc = "idle"
    /\ CanExecuteInterval(sched.order)
    /\ GetRemainingIntervals(history) >= 1

\* the interval of the order in sched is below the minimum fill size and is
\* not the last one
BelowMinFill ==
    /\ GetRemainingIntervals(history) > 1
    /\ GetRemainingAmount(sched.order) * AmountScale
          < MinFillSize * AmountScale * GetRemainingIntervals(history)

\* C27: with R = source_amount - executed_amount and J = K - records, an
\* interval below min_fill_size with J > 1 is skipped with order, queue and
\* history unchanged; otherwise the request offered has target R / J (to the
\* tenth of a unit the amounts are computed in).
C27_TargetIsRemainderOverIntervals ==
    [][SizesInterval =>
          LET R == GetRemainingAmount(sched.order)
              J == GetRemainingIntervals(history)
          IN  IF BelowMinFill
              THEN order' = order /\ queue' = queue /\ history' = history
              ELSE Len(queue) < QueueCapacity =>
                     /\ Len(queue') = Len(queue) + 1
                     /\ Abs(queue'[Len(queue')].target * J - R * AmountScale)
                           <= J * (AmountScale \div 10)
                     /\ order' = order /\ history' = history]_vars

\* processOrder is about to skip an interval below the minimum fill size
C27_Witness ==
    /\ sched.pc = "process"
    /\ CanExecuteInterval(sched.order)
    /\ BelowMinFill
    /\ processOrderDecision(sched.order, history) = "skip"

\* C28: every execution record written has amount > 0 and price > 0, also when
\* the price cache holds no data for the pair and the interval goes unchecked.
C28_RecordsHavePositiveAmountAndPrice ==
    \A i \in 1..Len(history) :
        history[i].amount > 0 /\ history[i].price > 0

\* the points of a sequence are in ascending timestamp order
Ascending(points) ==
    \A i \in 1..Len(points) - 1 : points[i].ts <= points[i + 1].ts

\* C29: the cached sequence of every pair is in ascending timestamp order;
\* right after an insert the pair inserted into has no point older than
\* now - max_age, and the points of the other pairs are as they were.
C29_CacheAscendingAndTrimmed ==
    [][/\ \A pair \in CachedPairs : Ascending(priceCache'[pair])
       /\ priceCache' # priceCache =>
             \E pair \in CachedPairs :
                /\ Len(priceCache'[pair]) >= 1
                /\ priceCache'[pair][Len(priceCache'[pair])].ts = now
                /\ \A i \in 1..Len(priceCache'[pair]) :
                      priceCache'[pair][i].ts >= now - CacheMaxAge
                /\ \A other \in CachedPairs \ {pair} :
                      priceCache'[other] = priceCache[other]]_vars

\* a pair has lost its first point and holds only the point inserted now, a
\* day or more after the start, while the other pair still holds its first
\* point, older than max_age
C29_Witness ==
    \E pair \in CachedPairs : \E other \in CachedPairs \ {pair} :
       /\ now >= CacheMaxAge
       /\ Len(priceCache[pair]) = 1
       /\ priceCache[pair][1].ts = now
       /\ Len(priceCache[other]) >= 1
       /\ priceCache[other][1].ts < now - CacheMaxAge

\* an htlc_created event is delivered for the HTLC address already stored
ReplaysHTLCCreated ==
    /\ Delivers([type |-> "htlc_created", secret |-> "none"])
    /\ htlc.status # "none"

\* an htlc_claimed event handled before is delivered again
ReplaysHTLCClaimed ==
    \E e \in evt.seen : e.type = "htlc_claimed" /\ Delivers(e)

\* C30: replaying htlc_created for an HTLC address already stored, or
\* htlc_claimed for an HTLC already claimed, is a no-op: the HTLC row and the
\* statistics counters stay as they are.
C30_HTLCReplayIsNoOp ==
    [][(ReplaysHTLCCreated \/ ReplaysHTLCClaimed) =>
          htlc' = htlc /\ stats' = stats]_vars

\* executeInterval writes in this step a record whose execution price lies
\* further from the request's TWAP than max_slippage allows, and no store
\* call has failed.
PostTradeBreach ==
    /\ worker.pc = "exec" /\ worker'.pc = "idle"
    /\ dbFailures' = 0
    /\ worker.req.hint # 0
    /\ Len(history') = Len(history) + 1
    /\ calculateSlippage(worker.req.hint, history'[Len(history')].price)
          > worker.req.maxSlippage

\* C31: when the execution price returned diverges from the TWAP by more than
\* S the record is written and the order is taken out of scheduling: it is no
\* longer among the orders GetExecutableOrders selects by status.
C31_PostTradeBreachPausesOrder ==
    [][PostTradeBreach => order'.status \notin {"pending", "executing"}]_vars

\* executeInterval returns in this step after the swap was made.
ExecutionReturns ==
    /\ worker.pc = "exec" /\ worker'.pc = "idle"
    /\ ~SlippageRejected(worker.req)

\* C32: the execution record and the order's mutable tail are persisted
\* together or not at all, and the interval is reported as a success only
\* when both were written.
C32_PostExecutionWritesAtomic ==
    [][ExecutionReturns =>
          /\ (history' # history) <=> (order' # order)
          /\ response'.success => (history' # history /\ order' # order)]_vars

\* every loop has exited and both Start calls have returned
AllStopped ==
    /\ \A l \in Loops : life.loops[l] = "exited"
    /\ life.engine = "returned"
    /\ life.orchestrator = "returned"

\* C33: on shutdown the adapters are unsubscribed before they are
\* disconnected, and the Store is closed only after every engine and
\* orchestrator loop has exited and both Start calls have returned.
C33_ShutdownInOrder ==
    /\ ~life.connected => life.subscribed # "yes"
    /\ life.store = "closed" => AllStopped

C35_ExecutedWithinSourceOnChain ==
    /\ bridge.order.executedAmount <= bridge.order.sourceAmount
    /\ bridge.order.status \in {"Completed", "Claimed"} =>
          /\ bridge.order.user # "none"
          /\ bridge.order.executedAmount = bridge.order.sourceAmount

\* an order filled in two intervals has been claimed
C35_Witness ==
    /\ bridge.order.status = "Claimed"
    /\ Len(bridge.history) = 2
    /\ bridge.order.executedAmount = bridge.order.sourceAmount

\* the status edges of an order in the contract
BridgeStatusEdges ==
    {<<"Executing", "Completed">>, <<"Executing", "Cancelled">>,
     <<"Completed", "Claimed">>}

\* C36: the status of an existing order moves only Executing -> Completed,
\* Executing -> Cancelled or Completed -> Claimed, the last by a claimHTLC
\* with the secret of the hash on a Completed order; a Cancelled or Claimed
\* order takes no further execute, cancel or claim; a rejected call leaves
\* the order, its history and the balances unchanged.
C36_BridgeStatusMoves ==
    [][/\ (bridge.order.user # "none"
            /\ bridge'.order.status # bridge.order.status) =>
              <<bridge.order.status, bridge'.order.status>> \in BridgeStatusEdges
       /\ bridge'.order.status = "Claimed" /\ bridge.order.status # "Claimed" =>
              /\ BridgeCall("claim")
              /\ bridge'.last.secret = "valid"
              /\ bridge.order.status = "Completed"
       /\ (bridge.order.status \in {"Cancelled", "Claimed"}
            /\ bridge'.calls = bridge.calls + 1) =>
              ~bridge'.last.ok
       /\ (bridge'.calls = bridge.calls + 1 /\ ~bridge'.last.ok) =>
              /\ bridge'.order = bridge.order
              /\ bridge'.history = bridge.history
              /\ bridge'.balance = bridge.balance
              /\ bridge'.paid = bridge.paid]_vars

\* a second claim with the right secret has been rejected on a Claimed order
C36_Witness ==
    /\ bridge.order.status = "Claimed"
    /\ bridge.last.fn = "claim"
    /\ bridge.last.secret = "valid"
    /\ ~bridge.last.ok

\* C37: a call of ExecuteOrderManually that has enqueued its request returns
\* with the worker's response, also when the engine is stopped after the
\* request was enqueued (the calls refused at once return in the same step).
C37_ManualCallReturns ==
    (life.manual.pc = "waiting") ~> (life.manual.pc = "returned")

\* C38: ActiveOrders is never negative, whatever order_created and
\* order_completed events are delivered and whatever the timeout monitor
\* expires: no decrement without an earlier increment.
C38_ActiveOrdersNeverNegative == stats.activeOrders >= 0

\* C39: no lookup in the eventHandlers map by handleEvent is under way while
\* AddEventHandler or RemoveEventHandler is writing the map: every access to
\* the map is made under the orchestrator mutex.
C39_HandlersAccessedUnderMutex ==
    registry.reader.pc = "lookup" => registry.writer.pc # "writing"

\* A call of executeInterval returns Success = true.
SuccessReturned ==
    /\ worker.pc = "exec" /\ worker'.pc = "idle"
    /\ response'.success

\* C40: TotalExecutions = SuccessfulExecutions + FailedExecutions before and
\* after every step, and SuccessfulExecutions goes up by one exactly in the
\* steps in which executeInterval returns Success = true (so it counts them).
C40_MetricsAddUp ==
    [][/\ metrics.total = metrics.successful + metrics.failed
       /\ metrics'.total = metrics'.successful + metrics'.failed
       /\ metrics'.successful =
            metrics.successful + (IF SuccessReturned THEN 1 ELSE 0)]_vars

\* a success has been counted, and a later call has returned a failure at the
\* slippage check, which no counter counts
C40_Witness ==
    /\ metrics.successful >= 1
    /\ metrics.total = metrics.successful
    /\ response.error = "slippage"

====
